---- MODULE Spec2Model ----
(***************************************************************************)
(* PortManager of shared-worker-utils: the registry of MessagePort clients *)
(* of a SharedWorker, its ping/pong heartbeat sweep, the stale status and  *)
(* the filtered broadcast and counting operations.                         *)
(*                                                                         *)
(* Time is Date.now() in milliseconds.  The heartbeat timer is the         *)
(* setInterval of the constructor; it fires at multiples of pingInterval.  *)
(* A port is a MessagePort object; the listeners attached to it follow the *)
(* DOM EventTarget rules (listeners run in the order they were added, a    *)
(* listener removed during a dispatch is not run, a listener added during  *)
(* a dispatch is not run for that event).                                  *)
(***************************************************************************)
EXTENDS Integers, Sequences, FiniteSets, TLC

VARIABLES
    clients,            \* PortManager.clients : port -> ClientState | NoClient
    order,              \* the keys of PortManager.clients in insertion order
    listeners,          \* per port, the number of attached 'message' listeners
    pingIntervalId,     \* TRUE while the setInterval timer is armed
    nextTick,           \* the time at which the timer fires next
    staleClientTimeout, \* the option: Undefined or a duration
    now,                \* Date.now()
    connects,           \* per port, handleConnect calls since its last removal
    restoredFrom,       \* per port, the staleTimestamp its entry was last restored from
    scope,              \* the ports that exist and the time explored
    lastOp,             \* the operation that produced this state
    trace,              \* what that operation posted, logged and called back
    wrapper,            \* per port, the SharedWorkerClient of the page and its document
    toWorker,           \* per port, the messages posted by the page, not yet delivered
    toClient,           \* per port, the messages posted by the worker, not yet delivered
    registry,           \* a PortRegistry: its ports map and its event listeners
    connection,         \* a Connection: its state, its listener and its callbacks
    heartbeat,          \* a HeartbeatManager: its intervalId and the timers it set
    handler             \* a MessageHandler: the callbacks it was constructed with

vars == <<clients, order, listeners, pingIntervalId, nextTick, staleClientTimeout,
          now, connects, restoredFrom, scope, lastOp, trace,
          wrapper, toWorker, toClient, registry, connection, heartbeat, handler>>

(* The objects other than the PortManager and the pages *)
parts == <<registry, connection, heartbeat, handler>>

----------------------------------------------------------------------------
(* Bounds of the model *)

MaxTime == 30000
EvictionTime == 40000
MaxLeaked == 1
ThreePeerTime == 20000
FaultTime == 20000
MaxQueue == 1
ClientTime == 20000
MaxPosted == 2
MaxTimers == 3
HeartbeatTime == 30000

(* Program constants *)

pingInterval == 10000
pingTimeout == 5000
StaleTimeoutValue == 10000

Granularity == pingTimeout

Ports == {"p1", "p2", "p3"}
NoPort == "none"
Undefined == 0 - 1

NoClient == [visible |-> FALSE, lastPong |-> Undefined, status |-> "none",
             staleTimestamp |-> Undefined]

PING == "@shared-worker-utils/ping"
PONG == "@shared-worker-utils/pong"
DISCONNECT == "@shared-worker-utils/disconnect"
VISIBILITY_CHANGE == "@shared-worker-utils/visibility-change"
CLIENT_COUNT == "@shared-worker-utils/client-count"

(* Inbound payloads: type and the optional visible field *)
Messages ==
    { [type |-> VISIBILITY_CHANGE, visible |-> v] : v \in {"true", "false", "absent"} }
    \cup { [type |-> t, visible |-> "absent"] :
               t \in {DISCONNECT, PONG, PING, CLIENT_COUNT, "custom"} }

----------------------------------------------------------------------------
(* Trace events *)

Ev(kind, port, to, total, active) ==
    [kind |-> kind, port |-> port, to |-> to, total |-> total, active |-> active]

LogEv(text) == Ev(text, NoPort, {}, 0, 0)

Emit(s, e) == [s EXCEPT !.out = Append(@, e)]

----------------------------------------------------------------------------
(* Exceptions.  During one operation the environment may make one thing    *)
(* throw: postMessage on one port, or one of the host's callbacks.  The    *)
(* manager has no try/catch: a throw ends the running callback, whatever   *)
(* it had left to do.                                                      *)

NoFault == [kind |-> "none", port |-> NoPort]

Faults ==
    {NoFault}
    \cup { [kind |-> "postMessage", port |-> p] : p \in Ports }
    \cup { [kind |-> k, port |-> NoPort] : k \in {"onLog", "onMessage", "onActiveCountChange"} }

Throw(s, what, p) == [Emit(s, Ev("throw", p, {what}, 0, 0)) EXCEPT !.thrown = TRUE]

(* In the operators below F(x) is the body of the method and x the state   *)
(* it is entered in, which is computed once however often the body reads   *)
(* it.                                                                     *)
(* The rest of a callback runs only if nothing was thrown before *)
Then(s, next) == IF s.thrown THEN s ELSE next

Log(s, e) ==
    LET F(x) == IF x.thrown THEN x
                ELSE IF x.fault.kind = "onLog" THEN Throw(x, "onLog", NoPort)
                ELSE Emit(x, e)
    IN  CHOOSE r \in { F(x) : x \in {s} } : TRUE

Call(s, e) ==
    LET F(x) == IF x.thrown THEN x
                ELSE IF x.fault.kind = e.kind THEN Throw(x, e.kind, e.port)
                ELSE Emit(x, e)
    IN  CHOOSE r \in { F(x) : x \in {s} } : TRUE

----------------------------------------------------------------------------
(* Queries *)

Registered(cl) == { p \in Ports : cl[p] # NoClient }

getTotalCount(cl) == Cardinality({ p \in Ports : cl[p] # NoClient /\ cl[p].status = "connected" })

getActiveCount_visibleOnly(cl) ==
    Cardinality({ p \in Ports : cl[p] # NoClient /\ cl[p].visible })

getActiveCount(cl) ==
    Cardinality({ p \in Ports : cl[p] # NoClient /\ cl[p].visible /\ cl[p].status = "connected" })

getStaleCount(cl) == Cardinality({ p \in Ports : cl[p] # NoClient /\ cl[p].status = "stale" })

(* The position in a sequence of ports at which postMessage throws, or 0 *)
FirstFailing(seq, fault) ==
    IF fault.kind = "postMessage" /\ \E i \in 1..Len(seq) : seq[i] = fault.port
    THEN CHOOSE i \in 1..Len(seq) : seq[i] = fault.port
    ELSE 0

broadcast_toAllClients(s, kind, total, active) ==
    Emit(s, Ev(kind, NoPort, { p \in Ports : s.clients[p] # NoClient }, total, active))

(* The loop goes through the map in insertion order; the event holds the   *)
(* ports that were posted to.                                              *)
broadcast(s, kind, total, active) ==
    LET F(x) ==
            IF x.thrown THEN x
            ELSE LET live == SelectSeq(x.order, LAMBDA p : x.clients[p].status = "connected")
                     k == FirstFailing(live, x.fault)
                     got == { live[i] : i \in 1..(IF k = 0 THEN Len(live) ELSE k - 1) }
                     s1 == Emit(x, Ev(kind, NoPort, got, total, active))
                 IN  IF k = 0 THEN s1 ELSE Throw(s1, "postMessage", x.fault.port)
    IN  CHOOSE r \in { F(x) : x \in {s} } : TRUE

updateClientCount(s) ==
    LET F(x) ==
            LET activeCount == getActiveCount(x.clients)
                totalCount == getTotalCount(x.clients)
                s1 == Log(x, LogEv("Active clients updated"))
                s2 == broadcast(s1, CLIENT_COUNT, totalCount, activeCount)
            IN  Call(s2, Ev("onActiveCountChange", NoPort, {}, totalCount, activeCount))
    IN  CHOOSE r \in { F(x) : x \in {s} } : TRUE

----------------------------------------------------------------------------
(* Adding and removing clients *)

(* Map.set: a new key goes to the end, an existing key keeps its place *)
Inserted(keys, p) ==
    IF \E i \in 1..Len(keys) : keys[i] = p THEN keys ELSE Append(keys, p)

Deleted(keys, p) == SelectSeq(keys, LAMBDA q : q # p)

addClient_notVisible(s, p, t) ==
    Log([s EXCEPT !.clients[p] = [visible |-> FALSE, lastPong |-> t,
                                  status |-> "connected",
                                  staleTimestamp |-> Undefined],
                  !.order = Inserted(@, p),
                  !.listeners[p] = @ + 1],
        LogEv("Client added"))

addClient(s, p, t) ==
    Then(s, Log([s EXCEPT !.clients[p] = [visible |-> TRUE, lastPong |-> t,
                                          status |-> "connected",
                                          staleTimestamp |-> Undefined],
                          !.order = Inserted(@, p),
                          !.listeners[p] = @ + 1],
                LogEv("Client added")))

removeClient_keepsEntry(s, p) ==
    IF s.clients[p] # NoClient
    THEN Emit([s EXCEPT !.removals = @ + 1], Ev("Client removed", p, {}, 0, 0))
    ELSE s

removeClient_keepsListener(s, p) ==
    IF s.clients[p] # NoClient
    THEN Emit([s EXCEPT !.clients[p] = NoClient,
                        !.order = Deleted(@, p),
                        !.removals = @ + 1],
              Ev("Client removed", p, {}, 0, 0))
    ELSE s

removeClient(s, p) ==
    IF ~s.thrown /\ s.clients[p] # NoClient
    THEN Log([s EXCEPT !.clients[p] = NoClient,
                       !.order = Deleted(@, p),
                       !.listeners[p] = @ - 1,
                       !.removals = @ + 1],
             Ev("Client removed", p, {}, 0, 0))
    ELSE s

----------------------------------------------------------------------------
(* Inbound messages *)

clearStaleTimestamp(s, p) == [s EXCEPT !.clients[p].staleTimestamp = Undefined]

restoreStale_keepsLastPong(s, p, t) ==
    updateClientCount(clearStaleTimestamp(
        [Emit(s, Ev("Restoring stale client to connected status", p, {}, 0, 0))
            EXCEPT !.clients[p].status = "connected"], p))

restoreStale_keepsStatus(s, p, t) ==
    updateClientCount(clearStaleTimestamp(
        [Emit(s, Ev("Restoring stale client to connected status", p, {}, 0, 0))
            EXCEPT !.clients[p].lastPong = t], p))

restoreStale_makesVisible(s, p, t) ==
    LET s1 == Log(s, Ev("Restoring stale client to connected status", p, {}, 0, 0))
    IN  Then(s1, updateClientCount(clearStaleTimestamp(
                     [s1 EXCEPT !.clients[p].status = "connected",
                                !.clients[p].lastPong = t,
                                !.clients[p].visible = TRUE], p)))

restoreStale(s, p, t) ==
    LET s1 == Log(s, Ev("Restoring stale client to connected status", p, {}, 0, 0))
    IN  Then(s1, updateClientCount(clearStaleTimestamp(
                     [s1 EXCEPT !.clients[p].status = "connected",
                                !.clients[p].lastPong = t], p)))

visibleOrDefault(m) == IF m.visible = "absent" THEN TRUE ELSE m.visible = "true"

handleMessage_restoresOnPongOnly(s, p, m, t) ==
    LET s1 == IF s.clients[p] = NoClient
              THEN updateClientCount(
                       addClient(Emit(s, LogEv("Reconnecting previously removed client")), p, t))
              ELSE s
        s2 == IF s1.clients[p].status = "stale" /\ m.type = PONG
              THEN restoreStale(s1, p, t)
              ELSE s1
    IN  CASE m.type = VISIBILITY_CHANGE ->
                updateClientCount(
                    Emit([s2 EXCEPT !.clients[p].visible = visibleOrDefault(m)],
                         Ev("Client visibility changed", p, {}, 0, 0)))
          [] m.type = DISCONNECT ->
                updateClientCount(removeClient(s2, p))
          [] m.type = PONG ->
                Emit([s2 EXCEPT !.clients[p].lastPong = t],
                     Ev("Received pong from client", p, {}, 0, 0))
          [] OTHER ->
                Emit(s2, Ev("onMessage", p, {m.type}, 0, 0))

handleMessage(s, p, m, t) ==
    LET s1 == IF s.clients[p] = NoClient
              THEN updateClientCount(
                       addClient(Log(s, LogEv("Reconnecting previously removed client")), p, t))
              ELSE s
        s2 == IF ~s1.thrown /\ s1.clients[p].status = "stale"
              THEN restoreStale(s1, p, t)
              ELSE s1
    IN  IF s2.thrown THEN s2
        ELSE CASE m.type = VISIBILITY_CHANGE ->
                    updateClientCount(
                        Log([s2 EXCEPT !.clients[p].visible = visibleOrDefault(m)],
                            Ev("Client visibility changed", p, {}, 0, 0)))
              [] m.type = DISCONNECT ->
                    updateClientCount(removeClient(s2, p))
              [] m.type = PONG ->
                    Log([s2 EXCEPT !.clients[p].lastPong = t],
                        Ev("Received pong from client", p, {}, 0, 0))
              [] OTHER ->
                    Call(s2, Ev("onMessage", p, {m.type}, 0, 0))

(* An exception thrown by a listener is reported by the event loop; the    *)
(* next listener of the port still runs.                                   *)
Reported(s) == [s EXCEPT !.thrown = FALSE]

(* The leaked listeners of a port run first, oldest first; they belong to  *)
(* no entry and are never detached.                                        *)
RECURSIVE runLeaked(_, _, _, _, _)
runLeaked(s, p, m, t, k) ==
    IF k = 0 THEN s
    ELSE runLeaked(Reported(handleMessage(s, p, m, t)), p, m, t, k - 1)

Leaked(cl, ls, p) == ls[p] - (IF cl[p] # NoClient THEN 1 ELSE 0)

dispatchMessage(s, p, m, t) ==
    LET own == s.clients[p] # NoClient
        s1 == runLeaked(s, p, m, t, Leaked(s.clients, s.listeners, p))
    IN  IF own /\ s1.removals = 0 THEN handleMessage(s1, p, m, t) ELSE s1

----------------------------------------------------------------------------
(* The heartbeat sweep *)

staleThreshold_timeoutOnly == pingTimeout

staleThreshold == pingInterval + pingTimeout

IsSilent_intervalOnly(c, t) == t - c.lastPong >= pingInterval

IsSilent(c, t) == t - c.lastPong > staleThreshold

MarkedStale_atThreshold(cl, t) ==
    { p \in Ports : /\ cl[p] # NoClient
                    /\ t - cl[p].lastPong >= staleThreshold
                    /\ cl[p].status = "connected" }

MarkedStale(cl, t) ==
    { p \in Ports : cl[p] # NoClient /\ IsSilent(cl[p], t) /\ cl[p].status = "connected" }

Pinged_allLive(cl, t) ==
    { p \in Ports : cl[p] # NoClient /\ cl[p].status = "connected" }

Pinged(cl, t) ==
    { p \in Ports : cl[p] # NoClient /\ ~IsSilent(cl[p], t) /\ cl[p].status = "connected" }

AutoRemoved_atTimeout(cl, timeout, t) ==
    { p \in Ports : /\ cl[p] # NoClient
                    /\ timeout # Undefined
                    /\ cl[p].status = "stale"
                    /\ cl[p].staleTimestamp # Undefined
                    /\ t - cl[p].staleTimestamp >= timeout }

AutoRemoved(cl, timeout, t) ==
    { p \in Ports : /\ cl[p] # NoClient
                    /\ timeout # Undefined
                    /\ cl[p].status = "stale"
                    /\ cl[p].staleTimestamp # Undefined
                    /\ t - cl[p].staleTimestamp > timeout }

setStaleTimestamp(c, t) == [c EXCEPT !.staleTimestamp = t]

removeAll_firstOnly(s, ps) ==
    IF ps = {} THEN s ELSE removeClient(s, CHOOSE q \in ps : TRUE)

(* The ports of ps are removed in the order of the map *)
RECURSIVE removeAll(_, _)
removeAll(s, ps) ==
    IF ps = {} \/ s.thrown THEN s
    ELSE LET i == CHOOSE j \in 1..Len(s.order) :
                     /\ s.order[j] \in ps
                     /\ \A h \in 1..(j - 1) : s.order[h] \notin ps
             p == s.order[i]
         IN  removeAll(removeClient(s, p), ps \ {p})

checkClients_removesSilent(s, timeout, t) ==
    LET silent == { p \in Ports : s.clients[p] # NoClient /\ IsSilent(s.clients[p], t) }
        pinged == Pinged(s.clients, t)
        s1 == IF pinged # {} THEN Emit(s, Ev(PING, NoPort, pinged, 0, 0)) ELSE s
        s2 == removeAll(s1, silent)
    IN  IF silent # {}
        THEN updateClientCount(
                 Emit(s2, Ev("Client status update", NoPort, {}, 0, Cardinality(silent))))
        ELSE s2

(* The position in the map at which the loop of the sweep throws, or 0:    *)
(* the log call made for a connected entry, or the ping posted to the port *)
(* whose postMessage fails.                                                *)
SweepThrowsAt(s, t) ==
    LET Hit(i) ==
            LET c == s.clients[s.order[i]]
            IN  /\ c.status = "connected"
                /\ \/ s.fault.kind = "onLog"
                   \/ /\ s.fault.kind = "postMessage"
                      /\ s.fault.port = s.order[i]
                      /\ ~IsSilent(c, t)
    IN  IF \E i \in 1..Len(s.order) : Hit(i)
        THEN CHOOSE i \in 1..Len(s.order) : Hit(i) /\ \A h \in 1..(i - 1) : ~Hit(h)
        ELSE 0

checkClients_perEntry(s, timeout, t) ==
    LET k == SweepThrowsAt(s, t)
        done == { s.order[i] : i \in 1..(IF k = 0 THEN Len(s.order) ELSE k - 1) }
        hit == IF k = 0 THEN {} ELSE {s.order[k]}
        marked == MarkedStale(s.clients, t) \cap (done \cup hit)
        pinged == Pinged(s.clients, t) \cap done
        evicted == AutoRemoved(s.clients, timeout, t)
        s1 == [s EXCEPT !.clients =
                  [p \in Ports |->
                      IF p \in marked
                      THEN setStaleTimestamp([s.clients[p] EXCEPT !.status = "stale"], t)
                      ELSE s.clients[p]]]
        staled == SelectSeq(s.order, LAMBDA p : p \in marked \cap done)
        s1a == [s1 EXCEPT !.out = @ \o [i \in 1..Len(staled) |->
                                           Ev("Marking client as stale", staled[i], {}, 0, 0)]]
        s2 == IF pinged # {} THEN Emit(s1a, Ev(PING, NoPort, pinged, 0, 0)) ELSE s1a
        s3 == IF k = 0 THEN removeAll(s2, evicted)
              ELSE Throw(s2, IF s.fault.kind = "onLog" THEN "onLog" ELSE "postMessage",
                         s.fault.port)
        summary == Ev("Client status update", NoPort, {},
                      Cardinality(marked), Cardinality(evicted))
    IN  IF ~s3.thrown /\ (marked # {} \/ evicted # {})
        THEN IF Cardinality(marked) > 1
             THEN updateClientCount(Log(updateClientCount(Log(s3, summary)), summary))
             ELSE updateClientCount(Log(s3, summary))
        ELSE s3

(* Every entry the loop marks stale gets its own log line; the ping event  *)
(* stands for the log line and the post of each entry within the          *)
(* threshold.                                                              *)
checkClients(s, timeout, t) ==
    LET k == SweepThrowsAt(s, t)
        done == { s.order[i] : i \in 1..(IF k = 0 THEN Len(s.order) ELSE k - 1) }
        hit == IF k = 0 THEN {} ELSE {s.order[k]}
        marked == MarkedStale(s.clients, t) \cap (done \cup hit)
        pinged == Pinged(s.clients, t) \cap done
        evicted == AutoRemoved(s.clients, timeout, t)
        s1 == [s EXCEPT !.clients =
                  [p \in Ports |->
                      IF p \in marked
                      THEN setStaleTimestamp([s.clients[p] EXCEPT !.status = "stale"], t)
                      ELSE s.clients[p]]]
        staled == SelectSeq(s.order, LAMBDA p : p \in marked \cap done)
        s1a == [s1 EXCEPT !.out = @ \o [i \in 1..Len(staled) |->
                                           Ev("Marking client as stale", staled[i], {}, 0, 0)]]
        s2 == IF pinged # {} THEN Emit(s1a, Ev(PING, NoPort, pinged, 0, 0)) ELSE s1a
        s3 == IF k = 0 THEN removeAll(s2, evicted)
              ELSE Throw(s2, IF s.fault.kind = "onLog" THEN "onLog" ELSE "postMessage",
                         s.fault.port)
    IN  IF ~s3.thrown /\ (marked # {} \/ evicted # {})
        THEN updateClientCount(
                 Log(s3, Ev("Client status update", NoPort, {},
                            Cardinality(marked), Cardinality(evicted))))
        ELSE s3

----------------------------------------------------------------------------
(* Public operations that remove entries *)

(* The value a public operation returns to the host *)
Returns(n) == Ev("return", NoPort, {}, n, 0)

removeStaleClients(s) ==
    LET stale == { p \in Ports : s.clients[p] # NoClient /\ s.clients[p].status = "stale" }
        s1 == removeAll(s, stale)
        s2 == IF stale # {}
              THEN updateClientCount(
                       Log(s1, Ev("Manually removed stale clients", NoPort, {},
                                  Cardinality(stale), 0)))
              ELSE s1
    IN  Then(s2, Emit(s2, Returns(s1.removals)))

destroy_logsOnly(s) == Emit(s, LogEv("PortManager destroyed"))

destroy(s) ==
    Log(removeAll(s, Registered(s.clients)), LogEv("PortManager destroyed"))

----------------------------------------------------------------------------
(* The state machine *)

Start(fault) ==
    [clients |-> clients, order |-> order, listeners |-> listeners, out |-> <<>>,
     removals |-> 0, fault |-> fault, thrown |-> FALSE]

(* What may fail in the slice of behaviours explored *)
PossibleFaults == IF scope.faults THEN Faults ELSE {NoFault}

Op(name, port, msg) == [name |-> name, port |-> port, msg |-> msg]

NoMsg == [type |-> "none", visible |-> "absent"]

(* Marks a public operation called again in the same host callback, right  *)
(* after a call of the same operation.                                     *)
Again == [type |-> "again", visible |-> "absent"]

----------------------------------------------------------------------------
(* SharedWorkerClient: the wrapper of worker.port in a page.  Its state is *)
(* "open" until destroy() aborts its AbortController and closes the port:  *)
(* from then on its three listeners are detached and nothing it posts is   *)
(* delivered.                                                              *)

MESSAGE_TYPES == {PING, PONG, DISCONNECT, VISIBILITY_CHANGE, CLIENT_COUNT}

(* A type under the prefix that is none of the five constants *)
OtherInternal == "@shared-worker-utils/other"

(* A payload without a type property *)
Untyped == [type |-> "absent", visible |-> "absent"]

NoWrapper ==
    [state |-> "none", isTabVisible |-> FALSE, hidden |-> FALSE, accepted |-> FALSE,
     disconnected |-> FALSE]

(* new SharedWorkerClient(worker, options) in a document whose hidden is h *)
newClient(h) ==
    [state |-> "open", isTabVisible |-> ~h, hidden |-> h, accepted |-> FALSE,
     disconnected |-> FALSE]

CEv(kind, port, msg) == [kind |-> kind, port |-> port, msg |-> msg]

clientLog(c, p, text) == [c EXCEPT !.out = Append(@, CEv(text, p, NoMsg))]

(* port.postMessage: a closed port delivers nothing *)
send(c, m) == IF c.w.state = "destroyed" THEN c ELSE [c EXCEPT !.sent = Append(@, m)]

sendInternal(c, type, visible) == send(c, [type |-> type, visible |-> visible])

getIsVisible(w) == w.isTabVisible

clientHandleMessage_passesPing(c, p, m) ==
    IF m.type # "absent" /\ m.type \in MESSAGE_TYPES \ {PING} THEN c
    ELSE [c EXCEPT !.out = Append(@, CEv("client.onMessage", p, m))]

clientHandleMessage(c, p, m) ==
    IF m.type = PING
    THEN sendInternal(clientLog(c, p, "Received ping from SharedWorker, sending pong"),
                      PONG, "absent")
    ELSE IF m.type # "absent" /\ m.type \in MESSAGE_TYPES THEN c
    ELSE [c EXCEPT !.out = Append(@, CEv("client.onMessage", p, m))]

clientDestroy_keepsListeners(c, p) == clientLog(c, p, "SharedWorkerClient destroyed")

clientDestroy(c, p) ==
    clientLog([c EXCEPT !.w.state = "destroyed"], p, "SharedWorkerClient destroyed")

clientDisconnect(c, p) ==
    clientDestroy(
        sendInternal([c EXCEPT !.w.disconnected = @ \/ c.w.state = "open"],
                     DISCONNECT, "absent"),
        p)

handleVisibilityChange_always(c, p) ==
    LET newVisibility == ~c.w.hidden
    IN  sendInternal(
            clientLog([c EXCEPT !.w.isTabVisible = newVisibility], p,
                      "Tab visibility changed"),
            VISIBILITY_CHANGE, IF newVisibility THEN "true" ELSE "false")

handleVisibilityChange(c, p) ==
    LET newVisibility == ~c.w.hidden
    IN  IF newVisibility # c.w.isTabVisible
        THEN sendInternal(
                 clientLog([c EXCEPT !.w.isTabVisible = newVisibility], p,
                           "Tab visibility changed"),
                 VISIBILITY_CHANGE, IF newVisibility THEN "true" ELSE "false")
        ELSE c

(* What the worker posts to a port: the events of an operation that carry  *)
(* recipients, in the order they were posted.                              *)
RECURSIVE Posted(_, _)
Posted(tc, out) ==
    IF out = <<>> THEN tc
    ELSE LET e == Head(out)
             m == [type |-> e.kind, visible |-> "absent"]
         IN  Posted(IF e.kind \in {PING, CLIENT_COUNT, "custom"}
                    THEN [p \in Ports |-> IF p \in e.to THEN Append(tc[p], m) ELSE tc[p]]
                    ELSE tc,
                    Tail(out))

----------------------------------------------------------------------------
(* PortRegistry: a map from port ids to entries { id, port, meta } and the *)
(* callbacks subscribed to its 'add' and 'remove' events.  The host may    *)
(* put an AbortController in the meta of an entry; aborted holds the       *)
(* controllers that have been aborted.                                     *)

RegIds == {"a", "b"}
PortObjects == {"x", "y"}
Controllers == {"k1", "k2"}
Metas == {"undefined"} \cup Controllers
Callbacks == {"f", "g"}
RegistryEvents == {"add", "remove"}

NoEntry == [id |-> "none", port |-> "undefined", meta |-> "undefined"]

(* new PortRegistry(): both events have an empty Set of callbacks *)
NewRegistry ==
    [ports |-> [i \in RegIds |-> NoEntry], keys |-> <<>>,
     listeners |-> [e \in RegistryEvents |-> <<>>], aborted |-> {}]

LevelEv(text, level) == [kind |-> text, port |-> NoPort, level |-> level]

REv(event, callback, entry) == [kind |-> event, port |-> callback, entry |-> entry]

ReturnsValue(v) == [kind |-> "return", port |-> NoPort, value |-> v]

(* Every callback of the event is called with the entry, in the order of   *)
(* the Set; an event whose Set is gone has no callbacks.                   *)
emit(r, event, entry) ==
    IF event \in DOMAIN r.listeners
    THEN [r EXCEPT !.out = @ \o [i \in 1..Len(r.listeners[event]) |->
                                    REv(event, r.listeners[event][i], entry)]]
    ELSE r

register_mergesMeta(r, id, port, meta) ==
    LET entry == [id |-> id, port |-> port,
                  meta |-> IF meta = "undefined" THEN r.ports[id].meta ELSE meta]
        r1 == [r EXCEPT !.ports[id] = entry, !.keys = Inserted(@, id)]
    IN  emit(Log(r1, LevelEv("Port registered", "debug")), "add", entry)

register(r, id, port, meta) ==
    LET entry == [id |-> id, port |-> port, meta |-> meta]
        r1 == [r EXCEPT !.ports[id] = entry, !.keys = Inserted(@, id)]
    IN  emit(Log(r1, LevelEv("Port registered", "debug")), "add", entry)

get(r, id) == r.ports[id].port

getEntry(r, id) == r.ports[id]

size(r) == Len(r.keys)

list(r) == [i \in 1..Len(r.keys) |-> r.ports[r.keys[i]]]

remove_silent(r, id) ==
    LET entry == r.ports[id]
    IN  IF entry = NoEntry THEN Emit(r, ReturnsValue(FALSE))
        ELSE Emit(Log([r EXCEPT !.ports[id] = NoEntry, !.keys = Deleted(@, id)],
                      LevelEv("Port removed", "debug")),
                  ReturnsValue(TRUE))

remove(r, id) ==
    LET entry == r.ports[id]
    IN  IF entry = NoEntry THEN Emit(r, ReturnsValue(FALSE))
        ELSE Emit(emit(Log([r EXCEPT !.ports[id] = NoEntry, !.keys = Deleted(@, id)],
                           LevelEv("Port removed", "debug")),
                       "remove", entry),
                  ReturnsValue(TRUE))

on(r, event, callback) ==
    IF event \in DOMAIN r.listeners
    THEN [r EXCEPT !.listeners[event] = Inserted(@, callback)]
    ELSE r

off(r, event, callback) ==
    IF event \in DOMAIN r.listeners
    THEN [r EXCEPT !.listeners[event] = Deleted(@, callback)]
    ELSE r

(* The loop of shutdown over ports.values() *)
RECURSIVE emitRemoved(_, _)
emitRemoved(r, ids) ==
    IF ids = <<>> THEN r
    ELSE emitRemoved(emit(r, "remove", r.ports[Head(ids)]), Tail(ids))

shutdown_keepsListeners(r) ==
    [emitRemoved(Log(r, LevelEv("Shutting down registry", "info")), r.keys)
        EXCEPT !.ports = [i \in RegIds |-> NoEntry], !.keys = <<>>]

shutdown(r) ==
    [emitRemoved(Log(r, LevelEv("Shutting down registry", "info")), r.keys)
        EXCEPT !.ports = [i \in RegIds |-> NoEntry],
               !.keys = <<>>,
               !.listeners = [e \in {} |-> <<>>]]

----------------------------------------------------------------------------
(* Connection: the wrapper of one MessagePort.  attached is TRUE while the *)
(* message listener added by setupPort is on the port, that is until the   *)
(* AbortController of the connection is aborted; posted counts the         *)
(* messages that reached port.postMessage.                                 *)

NoConnection ==
    [state |-> "none", attached |-> FALSE, started |-> FALSE,
     messageCallbacks |-> <<>>, closeCallbacks |-> <<>>, posted |-> 0]

(* new Connection(port, id, { autoStart }) with setupPort *)
setupPort(autoStart) ==
    [state |-> IF autoStart THEN "connected" ELSE "connecting",
     attached |-> TRUE, started |-> autoStart,
     messageCallbacks |-> <<>>, closeCallbacks |-> <<>>, posted |-> 0]

(* catch (error): what was thrown in the try block is taken *)
Caught(c) == [c EXCEPT !.thrown = FALSE]

connectionSend(c) ==
    IF c.state = "disconnected"
    THEN Log(c, LevelEv("Cannot send message: connection is disconnected", "warn"))
    ELSE LET tried == IF c.fault.kind = "postMessage"
                      THEN Throw(c, "postMessage", NoPort)
                      ELSE Log([c EXCEPT !.posted = @ + 1], LevelEv("Message sent", "debug"))
         IN  IF tried.thrown
             THEN Log(Caught(tried), LevelEv("Error sending message", "error"))
             ELSE tried

onMessage(c, callback) == [c EXCEPT !.messageCallbacks = Inserted(@, callback)]

offMessage(c, callback) == [c EXCEPT !.messageCallbacks = Deleted(@, callback)]

onClose(c, callback) == [c EXCEPT !.closeCallbacks = Inserted(@, callback)]

offClose(c, callback) == [c EXCEPT !.closeCallbacks = Deleted(@, callback)]

(* The callbacks of a Set are called in the order they were added *)
Invoked(c, kind, callbacks) ==
    [c EXCEPT !.out = @ \o [i \in 1..Len(callbacks) |->
                               [kind |-> kind, port |-> callbacks[i]]]]

close_keepsListener(c) ==
    IF c.state = "disconnected" THEN c
    ELSE LET c1 == Log(c, LevelEv("Closing connection", "info"))
             c2 == Invoked([c1 EXCEPT !.state = "disconnected"],
                           "closeCallback", c1.closeCallbacks)
         IN  Then(c1, [c2 EXCEPT !.messageCallbacks = <<>>, !.closeCallbacks = <<>>])

close(c) ==
    IF c.state = "disconnected" THEN c
    ELSE LET c1 == Log(c, LevelEv("Closing connection", "info"))
             c2 == Invoked([c1 EXCEPT !.state = "disconnected", !.attached = FALSE],
                           "closeCallback", c1.closeCallbacks)
         IN  Then(c1, [c2 EXCEPT !.messageCallbacks = <<>>, !.closeCallbacks = <<>>])

(* The listener of setupPort: handleMessage(event) *)
connectionHandleMessage(c) ==
    LET c1 == Log(c, LevelEv("Message received", "debug"))
    IN  Then(c1, Invoked(c1, "messageCallback", c1.messageCallbacks))

----------------------------------------------------------------------------
(* HeartbeatManager.  timers are the intervals set so far with             *)
(* setInterval, by id: whether the interval is still active, the callback  *)
(* it runs and the time it runs next; count is the number of ids handed    *)
(* out.  The constructor sets the first interval, which runs check().      *)

NoTimer == [active |-> FALSE, callback |-> "none", due |-> Undefined]

NoHeartbeat == [intervalId |-> 0, count |-> 0, timers |-> [id \in 1..MaxTimers |-> NoTimer]]

(* intervalId = setInterval(callback, pingInterval) *)
setInterval(h, callback, t) ==
    [h EXCEPT !.count = @ + 1,
              !.intervalId = h.count + 1,
              !.timers[h.count + 1] =
                  [active |-> TRUE, callback |-> callback, due |-> t + pingInterval]]

(* clearInterval(id): nothing happens for an id that is not active *)
clearInterval(h, id) ==
    IF id \in 1..MaxTimers THEN [h EXCEPT !.timers[id].active = FALSE] ELSE h

onInterval_keepsTimer(h, callback, t) == setInterval(h, callback, t)

onInterval(h, callback, t) == setInterval(clearInterval(h, h.intervalId), callback, t)

stop(h) == clearInterval(h, h.intervalId)

----------------------------------------------------------------------------
(* MessageHandler: handle(port, data) calls the callback chosen by the     *)
(* type of the message, if the handler was constructed with it.            *)

HandlerCallbacks == {"onVisibilityChange", "onDisconnect", "onPong", "onAppMessage"}

NoHandler == {}

Called(supplied, callback, port, argument) ==
    IF callback \in supplied
    THEN <<[kind |-> callback, port |-> port, argument |-> argument]>>
    ELSE <<>>

handle_visibleAsSent(supplied, port, data) ==
    IF data.type = VISIBILITY_CHANGE
    THEN Called(supplied, "onVisibilityChange", port, data.visible)
    ELSE IF data.type = DISCONNECT THEN Called(supplied, "onDisconnect", port, "none")
    ELSE IF data.type = PONG THEN Called(supplied, "onPong", port, "none")
    ELSE Called(supplied, "onAppMessage", port, data)

handle(supplied, port, data) ==
    IF data.type = VISIBILITY_CHANGE
    THEN Called(supplied, "onVisibilityChange", port,
                IF data.visible = "absent" THEN "true" ELSE data.visible)
    ELSE IF data.type = DISCONNECT THEN Called(supplied, "onDisconnect", port, "none")
    ELSE IF data.type = PONG THEN Called(supplied, "onPong", port, "none")
    ELSE Called(supplied, "onAppMessage", port, data)

TotalLeaked == LET RECURSIVE Sum(_)
                   Sum(ps) == IF ps = {} THEN 0
                              ELSE LET p == CHOOSE q \in ps : TRUE
                                   IN  Leaked(clients, listeners, p) + Sum(ps \ {p})
               IN  Sum(Ports)

(* The order of the map decides which calls a throw cuts off.  Where       *)
(* nothing throws it decides only the order of the log lines of one loop,  *)
(* and the keys are kept in one fixed order.                               *)
KeyOrder(keys) ==
    IF scope.faults THEN keys
    ELSE SelectSeq(<<"p1", "p2", "p3">>, LAMBDA p : \E i \in 1..Len(keys) : keys[i] = p)

Commit(s) ==
    /\ clients' = s.clients
    /\ order' = KeyOrder(s.order)
    /\ listeners' = s.listeners
    /\ trace' = s.out
    /\ toClient' = IF scope.wired THEN Posted(toClient, s.out) ELSE toClient
    /\ \A p \in Ports : Len(toClient'[p]) <= MaxQueue
    /\ UNCHANGED parts

InitManager ==
    /\ clients = [p \in Ports |-> NoClient]
    /\ order = <<>>
    /\ listeners = [p \in Ports |-> 0]
    /\ pingIntervalId = TRUE
    /\ nextTick = pingInterval
    /\ now = 0
    /\ wrapper = [p \in Ports |-> NoWrapper]
    /\ toWorker = [p \in Ports |-> <<>>]
    /\ toClient = [p \in Ports |-> <<>>]
    /\ registry = NewRegistry
    /\ connection = NoConnection
    /\ heartbeat = NoHeartbeat
    /\ handler = NoHandler
    /\ connects = [p \in Ports |-> 0]
    /\ restoredFrom = [p \in Ports |-> Undefined]
    /\ lastOp = Op("constructor", NoPort, NoMsg)
    /\ trace = <<LogEv("PortManager initialized")>>

Init ==
    /\ InitManager
    /\ staleClientTimeout \in {Undefined, StaleTimeoutValue}
    /\ scope = [ports |-> {"p1", "p2"}, horizon |-> MaxTime, leaks |-> MaxLeaked,
                history |-> FALSE,
                faults |-> FALSE, wired |-> FALSE]

InitThreePeers ==
    /\ InitManager
    /\ staleClientTimeout = Undefined
    /\ scope = [ports |-> Ports, horizon |-> ThreePeerTime, leaks |-> 0,
                history |-> FALSE,
                faults |-> FALSE, wired |-> FALSE]

(* The manager with staleClientTimeout set and no port registered twice;   *)
(* restoredFrom is recorded.                                               *)
InitStaleTimeout ==
    /\ InitManager
    /\ staleClientTimeout = StaleTimeoutValue
    /\ scope = [ports |-> {"p1", "p2"}, horizon |-> EvictionTime, leaks |-> 0,
                history |-> TRUE,
                faults |-> FALSE, wired |-> FALSE]

TickDue == pingIntervalId /\ nextTick <= now

(* An operation starts when the previous callback has returned to the      *)
(* event loop: callbacks run one at a time, to completion.                 *)
Idle == lastOp.name = "idle"

HandleConnect(p) ==
    /\ Idle
    /\ p \in scope.ports
    /\ clients[p] # NoClient => TotalLeaked < scope.leaks
    /\ scope.wired => (wrapper[p].state # "none" /\ ~wrapper[p].accepted)
    /\ \E f \in PossibleFaults :
       \E s \in {updateClientCount(addClient(Start(f), p, now))} : Commit(s)
    /\ connects' = [connects EXCEPT ![p] = @ + 1]
    /\ restoredFrom' = [restoredFrom EXCEPT ![p] = Undefined]
    /\ wrapper' = IF scope.wired THEN [wrapper EXCEPT ![p].accepted = TRUE] ELSE wrapper
    /\ lastOp' = Op("handleConnect", p, NoMsg)
    /\ UNCHANGED <<pingIntervalId, nextTick, staleClientTimeout, now, scope, toWorker>>

Receive(p, m) ==
    /\ Idle
    /\ listeners[p] > 0
    /\ scope.wired => (toWorker[p] # <<>> /\ m = Head(toWorker[p]))
    /\ toWorker' = IF scope.wired THEN [toWorker EXCEPT ![p] = Tail(@)] ELSE toWorker
    /\ \E f \in PossibleFaults :
       \E s \in {dispatchMessage(Start(f), p, m, now)} :
           /\ Commit(s)
           /\ connects' = IF s.removals > 0 THEN [connects EXCEPT ![p] = 0] ELSE connects
           /\ restoredFrom' =
                 [restoredFrom EXCEPT ![p] =
                     IF s.removals > 0 \/ clients[p] = NoClient THEN Undefined
                     ELSE IF clients[p].status = "stale" /\ scope.history
                          THEN clients[p].staleTimestamp
                     ELSE @]
    /\ lastOp' = Op("message", p, m)
    /\ UNCHANGED <<pingIntervalId, nextTick, staleClientTimeout, now, scope, wrapper>>

Tick ==
    /\ Idle
    /\ TickDue
    /\ \E f \in PossibleFaults :
       \E s \in {checkClients(Start(f), staleClientTimeout, now)} :
           /\ Commit(s)
           /\ connects' = [p \in Ports |->
                             IF s.clients[p] = NoClient THEN 0 ELSE connects[p]]
           /\ restoredFrom' = [p \in Ports |->
                                 IF s.clients[p] = NoClient THEN Undefined
                                 ELSE restoredFrom[p]]
    /\ nextTick' = nextTick + pingInterval
    /\ lastOp' = Op("tick", NoPort, NoMsg)
    /\ UNCHANGED <<pingIntervalId, staleClientTimeout, now, scope, wrapper, toWorker>>

Broadcast ==
    /\ Idle
    /\ \E f \in PossibleFaults :
       \E s \in {broadcast(Start(f), "custom", 0, 0)} : Commit(s)
    /\ lastOp' = Op("broadcast", NoPort, NoMsg)
    /\ UNCHANGED <<pingIntervalId, nextTick, staleClientTimeout, now, connects,
                   restoredFrom, scope, wrapper, toWorker>>

RemoveStaleClients ==
    /\ Idle \/ lastOp.name = "removeStaleClients"
    /\ \E f \in PossibleFaults :
       \E s \in {removeStaleClients(Start(f))} :
           /\ Commit(s)
           /\ connects' = [p \in Ports |->
                             IF s.clients[p] = NoClient THEN 0 ELSE connects[p]]
           /\ restoredFrom' = [p \in Ports |->
                                 IF s.clients[p] = NoClient THEN Undefined
                                 ELSE restoredFrom[p]]
    /\ lastOp' = Op("removeStaleClients", NoPort, IF Idle THEN NoMsg ELSE Again)
    /\ UNCHANGED <<pingIntervalId, nextTick, staleClientTimeout, now, scope, wrapper,
                   toWorker>>

Destroy ==
    /\ Idle \/ lastOp.name = "destroy"
    /\ \E f \in PossibleFaults :
       \E s \in {destroy(Start(f))} :
           /\ Commit(s)
           /\ connects' = [p \in Ports |->
                             IF s.clients[p] = NoClient THEN 0 ELSE connects[p]]
           /\ restoredFrom' = [p \in Ports |->
                                 IF s.clients[p] = NoClient THEN Undefined
                                 ELSE restoredFrom[p]]
    /\ pingIntervalId' = FALSE
    /\ lastOp' = Op("destroy", NoPort, IF Idle THEN NoMsg ELSE Again)
    /\ UNCHANGED <<nextTick, staleClientTimeout, now, scope, wrapper, toWorker>>

Advance ==
    /\ Idle
    /\ pingIntervalId
    /\ ~TickDue
    /\ now + Granularity <= scope.horizon
    /\ now' = now + Granularity
    /\ UNCHANGED <<clients, order, listeners, pingIntervalId, nextTick,
                   staleClientTimeout, connects, restoredFrom, scope, lastOp, trace,
                   wrapper, toWorker, toClient, parts>>

Return ==
    /\ ~Idle
    /\ lastOp' = Op("idle", NoPort, NoMsg)
    /\ trace' = <<>>
    /\ UNCHANGED <<clients, order, listeners, pingIntervalId, nextTick,
                   staleClientTimeout, now, connects, restoredFrom, scope,
                   wrapper, toWorker, toClient, parts>>

Next ==
    \/ \E p \in Ports : HandleConnect(p)
    \/ \E p \in Ports, m \in Messages : Receive(p, m)
    \/ Tick
    \/ Broadcast
    \/ RemoveStaleClients
    \/ Destroy
    \/ Advance
    \/ Return

Spec == Init /\ [][Next]_vars

SpecThreePeers == InitThreePeers /\ [][Next]_vars

(* Time passes and the armed interval timer fires, however many messages   *)
(* and calls come in between; every callback returns.                      *)
SpecStaleTimeout == InitStaleTimeout /\ [][Next]_vars

InitFair ==
    /\ InitManager
    /\ staleClientTimeout = StaleTimeoutValue
    /\ scope = [ports |-> {"p1", "p2"}, horizon |-> EvictionTime, leaks |-> 0,
                history |-> FALSE,
                faults |-> FALSE, wired |-> FALSE]

FairSpec ==
    InitFair /\ [][Next]_vars /\ SF_vars(Advance) /\ SF_vars(Tick) /\ WF_vars(Return)

(* The manager with a host whose callbacks may throw and ports whose       *)
(* postMessage may throw; no port is registered twice.                     *)
InitFaults ==
    /\ InitManager
    /\ staleClientTimeout = Undefined
    /\ scope = [ports |-> {"p1", "p2"}, horizon |-> FaultTime, leaks |-> 0, history |-> FALSE,
                faults |-> TRUE, wired |-> FALSE]

SpecFaults == InitFaults /\ [][Next]_vars

----------------------------------------------------------------------------
(* Pages and the worker.  A page creates the SharedWorker and wraps its    *)
(* port in a SharedWorkerClient; the worker's connect handler passes the   *)
(* other end of the port to handleConnect, once.  What either side posts   *)
(* is delivered by the event loop of the other side, in order.             *)

manager == <<clients, order, listeners, pingIntervalId, nextTick, staleClientTimeout,
             now, connects, restoredFrom, scope>>

StartClient(p) == [w |-> wrapper[p], sent |-> <<>>, out |-> <<>>]

CommitClient(p, c) ==
    /\ Len(toWorker[p]) + Len(c.sent) <= MaxQueue
    /\ wrapper' = [wrapper EXCEPT ![p] = c.w]
    /\ toWorker' = [toWorker EXCEPT ![p] = @ \o c.sent]
    /\ trace' = c.out

NewClient(p, h) ==
    /\ Idle
    /\ p \in scope.ports
    /\ wrapper[p].state = "none"
    /\ wrapper' = [wrapper EXCEPT ![p] = newClient(h)]
    /\ trace' = <<CEv("Connected to SharedWorker", p, NoMsg),
                  CEv("Tab visibility initialized", p, NoMsg)>>
    /\ lastOp' = Op("new SharedWorkerClient", p, NoMsg)
    /\ UNCHANGED <<manager, toWorker, toClient, parts>>

(* A message event on the port of the page: its listener is handleMessage, *)
(* unless it has been detached.                                            *)
ClientReceive(p) ==
    /\ Idle
    /\ toClient[p] # <<>>
    /\ \E c \in {IF wrapper[p].state = "open"
                 THEN clientHandleMessage(StartClient(p), p, Head(toClient[p]))
                 ELSE StartClient(p)} : CommitClient(p, c)
    /\ toClient' = [toClient EXCEPT ![p] = Tail(@)]
    /\ lastOp' = Op("client.message", p, Head(toClient[p]))
    /\ UNCHANGED <<manager, parts>>

(* The host of the worker posts a message of its own to a port it holds *)
HostMessages ==
    { [type |-> VISIBILITY_CHANGE, visible |-> "true"], Untyped }
    \cup { [type |-> t, visible |-> "absent"] : t \in {PONG, DISCONNECT, OtherInternal} }

HostPost(p, m) ==
    /\ Idle
    /\ wrapper[p].accepted
    /\ toClient[p] = <<>>
    /\ toClient' = [toClient EXCEPT ![p] = <<m>>]
    /\ trace' = <<>>
    /\ lastOp' = Op("postMessage", p, m)
    /\ UNCHANGED <<manager, wrapper, toWorker, parts>>

(* The document of the page fires visibilitychange with hidden = h *)
VisibilityChange(p, h) ==
    /\ Idle
    /\ wrapper[p].state # "none"
    /\ \E c \in {IF wrapper[p].state = "open"
                 THEN handleVisibilityChange(
                          [StartClient(p) EXCEPT !.w.hidden = h], p)
                 ELSE [StartClient(p) EXCEPT !.w.hidden = h]} : CommitClient(p, c)
    /\ lastOp' = Op("visibilitychange", p, NoMsg)
    /\ UNCHANGED <<manager, toClient, parts>>

ClientSend(p) ==
    /\ Idle
    /\ wrapper[p].state # "none"
    /\ \E c \in {send(StartClient(p), [type |-> "custom", visible |-> "absent"])} :
           CommitClient(p, c)
    /\ lastOp' = Op("client.send", p, NoMsg)
    /\ UNCHANGED <<manager, toClient, parts>>

(* disconnect() called by the page, or by the beforeunload listener while  *)
(* that is attached.                                                       *)
ClientDisconnect(p) ==
    /\ Idle
    /\ wrapper[p].state # "none"
    /\ \E c \in {clientDisconnect(StartClient(p), p)} : CommitClient(p, c)
    /\ lastOp' = Op("client.disconnect", p, NoMsg)
    /\ UNCHANGED <<manager, toClient, parts>>

ClientDestroy(p) ==
    /\ Idle
    /\ wrapper[p].state # "none"
    /\ \E c \in {clientDestroy(StartClient(p), p)} : CommitClient(p, c)
    /\ lastOp' = Op("client.destroy", p, NoMsg)
    /\ UNCHANGED <<manager, toClient, parts>>

(* A message event on a port of the worker that has no listener left *)
Unheard(p) ==
    /\ Idle
    /\ wrapper[p].accepted
    /\ listeners[p] = 0
    /\ toWorker[p] # <<>>
    /\ toWorker' = [toWorker EXCEPT ![p] = Tail(@)]
    /\ UNCHANGED <<manager, wrapper, toClient, parts, lastOp, trace>>

NextClient ==
    \/ Next
    \/ \E p \in Ports, h \in BOOLEAN : NewClient(p, h)
    \/ \E p \in Ports : ClientReceive(p)
    \/ \E p \in Ports, m \in HostMessages : HostPost(p, m)
    \/ \E p \in Ports, h \in BOOLEAN : VisibilityChange(p, h)
    \/ \E p \in Ports : ClientSend(p)
    \/ \E p \in Ports : ClientDisconnect(p)
    \/ \E p \in Ports : ClientDestroy(p)
    \/ \E p \in Ports : Unheard(p)

InitClient ==
    /\ InitManager
    /\ staleClientTimeout = Undefined
    /\ scope = [ports |-> {"p1"}, horizon |-> ClientTime, leaks |-> 0,
                history |-> FALSE, faults |-> FALSE, wired |-> TRUE]

SpecClient == InitClient /\ [][NextClient]_vars

----------------------------------------------------------------------------
(* A PortRegistry and its host: the host registers and removes ports under *)
(* ids of its choice, subscribes and unsubscribes callbacks, and shuts the *)
(* registry down.  shutdown() is an async function without an await: its   *)
(* body has run when the call returns.                                     *)

StartRegistry ==
    [ports |-> registry.ports, keys |-> registry.keys, listeners |-> registry.listeners,
     aborted |-> registry.aborted, out |-> <<>>, thrown |-> FALSE, fault |-> NoFault]

CommitRegistry(r) ==
    /\ registry' = [ports |-> r.ports, keys |-> r.keys, listeners |-> r.listeners,
                    aborted |-> r.aborted]
    /\ trace' = r.out
    /\ UNCHANGED <<manager, wrapper, toWorker, toClient, connection, heartbeat, handler>>

Register(id, port, meta) ==
    /\ Idle
    /\ \E r \in {register(StartRegistry, id, port, meta)} : CommitRegistry(r)
    /\ lastOp' = Op("register", id, [port |-> port, meta |-> meta])

Remove(id) ==
    /\ Idle
    /\ \E r \in {remove(StartRegistry, id)} : CommitRegistry(r)
    /\ lastOp' = Op("remove", id, NoMsg)

On(event, callback) ==
    /\ Idle
    /\ \E r \in {on(StartRegistry, event, callback)} : CommitRegistry(r)
    /\ lastOp' = Op("on", callback, [type |-> event, visible |-> "absent"])

Off(event, callback) ==
    /\ Idle
    /\ \E r \in {off(StartRegistry, event, callback)} : CommitRegistry(r)
    /\ lastOp' = Op("off", callback, [type |-> event, visible |-> "absent"])

Shutdown ==
    /\ Idle
    /\ \E r \in {shutdown(StartRegistry)} : CommitRegistry(r)
    /\ lastOp' = Op("shutdown", NoPort, NoMsg)

NextRegistry ==
    \/ \E id \in RegIds, port \in PortObjects, meta \in Metas : Register(id, port, meta)
    \/ \E id \in RegIds : Remove(id)
    \/ \E event \in RegistryEvents, callback \in Callbacks : On(event, callback)
    \/ \E event \in RegistryEvents, callback \in Callbacks : Off(event, callback)
    \/ Shutdown
    \/ Return

InitRegistry ==
    /\ InitManager
    /\ staleClientTimeout = Undefined
    /\ scope = [ports |-> {}, horizon |-> 0, leaks |-> 0,
                history |-> FALSE, faults |-> FALSE, wired |-> FALSE]

SpecRegistry == InitRegistry /\ [][NextRegistry]_vars

----------------------------------------------------------------------------
(* A Connection and its host.  The host wraps one port, with or without    *)
(* autoStart, adds and removes callbacks, sends and closes; the event loop *)
(* hands a message to the listener while the listener is on a started      *)
(* port.  Where faults are explored, postMessage or the onLog option may   *)
(* throw during a call; a call that ends by throwing to its caller ends    *)
(* its trace with an "uncaught" event.                                     *)

ConnectionFaults ==
    IF scope.faults
    THEN {NoFault, [kind |-> "postMessage", port |-> NoPort],
          [kind |-> "onLog", port |-> NoPort]}
    ELSE {NoFault}

StartConnection(fault) ==
    [state |-> connection.state, attached |-> connection.attached,
     started |-> connection.started,
     messageCallbacks |-> connection.messageCallbacks,
     closeCallbacks |-> connection.closeCallbacks, posted |-> connection.posted,
     out |-> <<>>, thrown |-> FALSE, fault |-> fault]

Uncaught == [kind |-> "uncaught", port |-> NoPort]

CommitConnection(c) ==
    /\ connection' = [state |-> c.state, attached |-> c.attached, started |-> c.started,
                      messageCallbacks |-> c.messageCallbacks,
                      closeCallbacks |-> c.closeCallbacks, posted |-> c.posted]
    /\ trace' = IF c.thrown THEN Append(c.out, Uncaught) ELSE c.out
    /\ UNCHANGED <<manager, wrapper, toWorker, toClient, registry, heartbeat, handler>>

(* new Connection(port, id, { autoStart, onLog }): the listener is added,  *)
(* and with autoStart the port is started and the state logged.  If the    *)
(* log throws, the constructor throws and the host gets no Connection.     *)
NewConnection(autoStart) ==
    /\ Idle
    /\ connection.state = "none"
    /\ \E f \in ConnectionFaults :
       \E c0 \in {[StartConnection(f) EXCEPT
                      !.state = setupPort(autoStart).state,
                      !.attached = setupPort(autoStart).attached,
                      !.started = setupPort(autoStart).started]} :
       \E c \in {IF autoStart
                 THEN Log(c0, LevelEv("Connection established", "info"))
                 ELSE c0} :
          CommitConnection(IF c.thrown
                           THEN [c EXCEPT !.state = "none", !.attached = FALSE,
                                          !.started = FALSE]
                           ELSE c)
    /\ lastOp' = Op("Connection", NoPort, NoMsg)

(* getPort().start() by the host of a connection made without autoStart *)
PortStart ==
    /\ Idle
    /\ connection.state # "none"
    /\ ~connection.started
    /\ CommitConnection([StartConnection(NoFault) EXCEPT !.started = TRUE])
    /\ lastOp' = Op("start", NoPort, NoMsg)

Send ==
    /\ Idle
    /\ connection.state # "none"
    /\ connection.posted < MaxPosted
    /\ \E f \in ConnectionFaults :
       \E c \in {connectionSend(StartConnection(f))} : CommitConnection(c)
    /\ lastOp' = Op("send", NoPort, NoMsg)

OnMessage(callback) ==
    /\ Idle
    /\ connection.state # "none"
    /\ CommitConnection(onMessage(StartConnection(NoFault), callback))
    /\ lastOp' = Op("onMessage", callback, NoMsg)

OffMessage(callback) ==
    /\ Idle
    /\ connection.state # "none"
    /\ CommitConnection(offMessage(StartConnection(NoFault), callback))
    /\ lastOp' = Op("offMessage", callback, NoMsg)

OnClose(callback) ==
    /\ Idle
    /\ connection.state # "none"
    /\ CommitConnection(onClose(StartConnection(NoFault), callback))
    /\ lastOp' = Op("onClose", callback, NoMsg)

OffClose(callback) ==
    /\ Idle
    /\ connection.state # "none"
    /\ CommitConnection(offClose(StartConnection(NoFault), callback))
    /\ lastOp' = Op("offClose", callback, NoMsg)

Close ==
    /\ Idle
    /\ connection.state # "none"
    /\ \E f \in ConnectionFaults :
       \E c \in {close(StartConnection(f))} : CommitConnection(c)
    /\ lastOp' = Op("close", NoPort, NoMsg)

(* A message of the other side is dispatched to the listener of setupPort *)
PortMessage ==
    /\ Idle
    /\ connection.attached
    /\ connection.started
    /\ \E f \in ConnectionFaults :
       \E c \in {connectionHandleMessage(StartConnection(f))} : CommitConnection(c)
    /\ lastOp' = Op("message", NoPort, NoMsg)

NextConnection ==
    \/ \E autoStart \in BOOLEAN : NewConnection(autoStart)
    \/ PortStart
    \/ Send
    \/ \E callback \in Callbacks : OnMessage(callback)
    \/ \E callback \in Callbacks : OffMessage(callback)
    \/ \E callback \in Callbacks : OnClose(callback)
    \/ \E callback \in Callbacks : OffClose(callback)
    \/ Close
    \/ PortMessage
    \/ Return

InitConnection ==
    /\ InitManager
    /\ staleClientTimeout = Undefined
    /\ scope = [ports |-> {}, horizon |-> 0, leaks |-> 0,
                history |-> FALSE, faults |-> FALSE, wired |-> FALSE]

SpecConnection == InitConnection /\ [][NextConnection]_vars

InitConnectionFaults ==
    /\ InitManager
    /\ staleClientTimeout = Undefined
    /\ scope = [ports |-> {}, horizon |-> 0, leaks |-> 0,
                history |-> FALSE, faults |-> TRUE, wired |-> FALSE]

SpecConnectionFaults == InitConnectionFaults /\ [][NextConnection]_vars

----------------------------------------------------------------------------
(* A HeartbeatManager, its host and the timers of the runtime.  The host   *)
(* constructs the manager, replaces the callback of the interval and stops *)
(* it; the runtime runs the callback of every active interval when it is   *)
(* due, one callback at a time, and time passes only when none is due.     *)

ActiveTimers(h) == { id \in 1..MaxTimers : h.timers[id].active }

DueTimers(h, t) == { id \in ActiveTimers(h) : h.timers[id].due <= t }

HeartbeatStep(h, op) ==
    /\ heartbeat' = h
    /\ lastOp' = op
    /\ UNCHANGED <<clients, order, listeners, pingIntervalId, nextTick, staleClientTimeout,
                   now, connects, restoredFrom, scope, wrapper, toWorker, toClient,
                   registry, connection, handler>>

NewHeartbeat ==
    /\ Idle
    /\ heartbeat = NoHeartbeat
    /\ trace' = <<>>
    /\ HeartbeatStep(setInterval(NoHeartbeat, "check", now), Op("HeartbeatManager", NoPort, NoMsg))

OnInterval(callback) ==
    /\ Idle
    /\ heartbeat # NoHeartbeat
    /\ heartbeat.count < MaxTimers
    /\ trace' = <<>>
    /\ HeartbeatStep(onInterval(heartbeat, callback, now), Op("onInterval", callback, NoMsg))

Stop ==
    /\ Idle
    /\ heartbeat # NoHeartbeat
    /\ trace' = <<>>
    /\ HeartbeatStep(stop(heartbeat), Op("stop", NoPort, NoMsg))

(* The runtime runs the callback of an interval that is due *)
Interval(id) ==
    /\ Idle
    /\ id \in DueTimers(heartbeat, now)
    /\ trace' = <<[kind |-> "interval", port |-> heartbeat.timers[id].callback]>>
    /\ HeartbeatStep([heartbeat EXCEPT !.timers[id].due = @ + pingInterval],
                     Op("interval", heartbeat.timers[id].callback, NoMsg))

Elapse ==
    /\ Idle
    /\ DueTimers(heartbeat, now) = {}
    /\ now + Granularity <= scope.horizon
    /\ now' = now + Granularity
    /\ UNCHANGED <<clients, order, listeners, pingIntervalId, nextTick, staleClientTimeout,
                   connects, restoredFrom, scope, lastOp, trace, wrapper, toWorker,
                   toClient, parts>>

NextHeartbeat ==
    \/ NewHeartbeat
    \/ \E callback \in Callbacks : OnInterval(callback)
    \/ Stop
    \/ \E id \in 1..MaxTimers : Interval(id)
    \/ Elapse
    \/ Return

InitHeartbeat ==
    /\ InitManager
    /\ staleClientTimeout = Undefined
    /\ scope = [ports |-> {}, horizon |-> HeartbeatTime, leaks |-> 0,
                history |-> FALSE, faults |-> FALSE, wired |-> FALSE]

SpecHeartbeat == InitHeartbeat /\ [][NextHeartbeat]_vars

----------------------------------------------------------------------------
(* A MessageHandler constructed with any of its four callbacks, to which   *)
(* the host passes the messages of its ports.                              *)

NewMessageHandler(callbacks) ==
    /\ Idle
    /\ handler' = callbacks
    /\ trace' = <<>>
    /\ lastOp' = Op("MessageHandler", NoPort, NoMsg)
    /\ UNCHANGED <<manager, wrapper, toWorker, toClient, registry, connection, heartbeat>>

Handle(port, data) ==
    /\ Idle
    /\ trace' = handle(handler, port, data)
    /\ lastOp' = Op("handle", port, data)
    /\ UNCHANGED <<manager, wrapper, toWorker, toClient, parts>>

NextMessageHandler ==
    \/ \E callbacks \in SUBSET HandlerCallbacks : NewMessageHandler(callbacks)
    \/ \E port \in Ports, data \in Messages \cup {Untyped} : Handle(port, data)
    \/ Return

InitMessageHandler ==
    /\ InitManager
    /\ staleClientTimeout = Undefined
    /\ scope = [ports |-> {}, horizon |-> 0, leaks |-> 0,
                history |-> FALSE, faults |-> FALSE, wired |-> FALSE]

SpecMessageHandler == InitMessageHandler /\ [][NextMessageHandler]_vars

----------------------------------------------------------------------------
(* Helpers of the properties *)

IsStale(cl, p) == cl[p] # NoClient /\ cl[p].status = "stale"
IsLive(cl, p) == cl[p] # NoClient /\ cl[p].status = "connected"

DispatchKinds ==
    {"onMessage", "Client visibility changed", "Client removed", "Received pong from client"}

HasEvent(tr, kind, port) == \E i \in 1..Len(tr) : tr[i].kind = kind /\ tr[i].port = port

MessageFrom(op, p) == op.name = "message" /\ op.port = p

IsApplication(m) == m.type \notin {VISIBILITY_CHANGE, DISCONNECT, PONG}

(* The restoration comes first in what the handler does: the log entry,    *)
(* the count recompute that already counts the peer, then the dispatch.    *)
RestoredFirst(tr, p, totalBefore) ==
    /\ Len(tr) >= 5
    /\ tr[1].kind = "Restoring stale client to connected status"
    /\ tr[1].port = p
    /\ tr[3].kind = CLIENT_COUNT
    /\ p \in tr[3].to
    /\ tr[3].total = totalBefore + 1
    /\ tr[4].kind = "onActiveCountChange"
    /\ \A i \in 1..Len(tr) : tr[i].kind \in DispatchKinds => i > 4
    /\ \E i \in 1..Len(tr) : tr[i].kind \in DispatchKinds /\ tr[i].port = p

----------------------------------------------------------------------------
(* C1: a message of any kind from a Stale peer first restores the entry    *)
(* (Live, lastPong = now, staleTimestamp cleared, counted again) and only  *)
(* then dispatches the message; an application message still reaches       *)
(* onMessage, the peer moves from the stale count to the total count, and  *)
(* a sweep does not stale a peer seen since the previous sweep.            *)
C1_StaleRestoredBeforeDispatch ==
    /\ [][\A p \in Ports :
            (IsStale(clients, p) /\ MessageFrom(lastOp', p)) =>
                /\ RestoredFirst(trace', p, getTotalCount(clients))
                /\ lastOp'.msg.type = DISCONNECT => clients'[p] = NoClient
                /\ lastOp'.msg.type # DISCONNECT =>
                      /\ IsLive(clients', p)
                      /\ clients'[p].lastPong = now
                      /\ clients'[p].staleTimestamp = Undefined
                /\ IsApplication(lastOp'.msg) =>
                      /\ getTotalCount(clients') = getTotalCount(clients) + 1
                      /\ getStaleCount(clients') = getStaleCount(clients) - 1
                      /\ HasEvent(trace', "onMessage", p)]_vars
    /\ [][\A p \in Ports :
            (lastOp'.name = "tick" /\ IsLive(clients, p)
                /\ clients[p].lastPong >= nextTick - pingInterval) =>
                IsLive(clients', p)]_vars

C1_Witness ==
    \E p \in Ports :
        /\ MessageFrom(lastOp, p)
        /\ lastOp.msg.type = "custom"
        /\ Len(trace) >= 5
        /\ trace[1].kind = "Restoring stale client to connected status"
        /\ HasEvent(trace, "onMessage", p)
        /\ IsLive(clients, p)
        /\ getStaleCount(clients) = 0

----------------------------------------------------------------------------
(* C2: broadcast(message) posts the message to exactly the entries that    *)
(* are Live when it is called, never to a Stale entry and never to a port  *)
(* that has no entry; with two of three peers Stale only the third gets it *)
LiveSet(cl) == { p \in Ports : IsLive(cl, p) }
StaleSet(cl) == { p \in Ports : IsStale(cl, p) }

C2_BroadcastOnlyToLive ==
    lastOp.name = "broadcast" =>
        /\ Len(trace) = 1
        /\ trace[1].kind = "custom"
        /\ trace[1].to = LiveSet(clients)
        /\ trace[1].to \cap StaleSet(clients) = {}
        /\ \A p \in Ports : clients[p] = NoClient => p \notin trace[1].to

C2_Witness ==
    /\ lastOp.name = "broadcast"
    /\ Cardinality(Registered(clients)) = 3
    /\ Cardinality(StaleSet(clients)) = 2
    /\ \E p \in Ports : trace[1].to = {p} /\ IsLive(clients, p)

----------------------------------------------------------------------------
(* C3: getTotalCount() is the number of Live entries, counts no Stale      *)
(* entry, and never exceeds the number of handleConnect calls whose peer   *)
(* has not been disconnected or evicted since.                             *)
RECURSIVE SumConnects(_, _)
SumConnects(c, ps) ==
    IF ps = {} THEN 0
    ELSE LET p == CHOOSE q \in ps : TRUE IN c[p] + SumConnects(c, ps \ {p})

C3_TotalCountBounded ==
    /\ getTotalCount(clients) = Cardinality(LiveSet(clients))
    /\ getTotalCount(clients) + Cardinality(StaleSet(clients))
           = Cardinality(Registered(clients))
    /\ getTotalCount(clients) <= SumConnects(connects, Ports)

----------------------------------------------------------------------------
(* C4: getActiveCount() never exceeds getTotalCount() and counts exactly   *)
(* the entries that are Live and visible, in the state and in every count  *)
(* the manager reports.                                                    *)
LiveVisibleSet(cl) == { p \in Ports : IsLive(cl, p) /\ cl[p].visible }

C4_ActiveWithinTotal ==
    /\ getActiveCount(clients) <= getTotalCount(clients)
    /\ getActiveCount(clients) = Cardinality(LiveVisibleSet(clients))
    /\ \A i \in 1..Len(trace) :
          trace[i].kind \in {CLIENT_COUNT, "onActiveCountChange"} =>
              trace[i].active <= trace[i].total
    /\ (Len(trace) > 0 /\ trace[Len(trace)].kind = "onActiveCountChange") =>
          /\ trace[Len(trace)].active = Cardinality(LiveVisibleSet(clients))
          /\ trace[Len(trace)].total = Cardinality(LiveSet(clients))

C4_Witness ==
    \E p, q \in Ports :
        /\ IsLive(clients, p) /\ ~clients[p].visible
        /\ IsStale(clients, q) /\ clients[q].visible
        /\ lastOp.name = "tick"
        /\ getActiveCount(clients) = 0
        /\ getTotalCount(clients) = 1

----------------------------------------------------------------------------
(* C5: for every registered entry staleTimestamp is set if and only if the *)
(* status is stale; the sweep that marks the entry stale sets it to now,   *)
(* the step that makes the entry Live again clears it, and no step changes *)
(* one of the two fields without the other.                                *)
StaleTimestampPaired(cl) ==
    \A p \in Ports :
        cl[p] # NoClient => (cl[p].staleTimestamp # Undefined <=> cl[p].status = "stale")

C5_StaleTimestampIffStale ==
    /\ []StaleTimestampPaired(clients)
    /\ [][\A p \in Ports :
            /\ (IsLive(clients, p) /\ IsStale(clients', p)) =>
                  /\ lastOp'.name = "tick"
                  /\ clients'[p].staleTimestamp = now
            /\ (IsStale(clients, p) /\ IsLive(clients', p)) =>
                  /\ lastOp'.name \in {"message", "handleConnect"}
                  /\ lastOp'.port = p
                  /\ clients'[p].staleTimestamp = Undefined
            /\ (clients[p] # NoClient /\ clients'[p] # NoClient
                    /\ clients'[p].status = clients[p].status) =>
                  clients'[p].staleTimestamp = clients[p].staleTimestamp]_vars

C5_Witness ==
    /\ lastOp.name = "tick"
    /\ \E p \in Ports : IsStale(clients, p) /\ clients[p].staleTimestamp = now
    /\ \E q \in Ports : IsLive(clients, q) /\ clients[q].staleTimestamp = Undefined

----------------------------------------------------------------------------
(* C6: a peer whose pong arrives between two heartbeat ticks is Live at    *)
(* the next tick, is not marked stale by it and is pinged again; a Live    *)
(* entry is never removed by a sweep or an eviction, only by its own       *)
(* disconnect message or by destroy.  By induction over the ticks a peer   *)
(* that answers every ping is never stale and never removed.               *)
PingedIn(tr, p) == \E i \in 1..Len(tr) : tr[i].kind = PING /\ p \in tr[i].to

SeenSincePreviousTick(p) ==
    IsLive(clients, p) /\ clients[p].lastPong >= nextTick - pingInterval

C6_ResponsivePeerStaysLive ==
    /\ [][\A p \in Ports :
            (MessageFrom(lastOp', p) /\ lastOp'.msg.type = PONG /\ clients'[p] # NoClient) =>
                (IsLive(clients', p) /\ clients'[p].lastPong = now)]_vars
    /\ [][\A p \in Ports :
            (SeenSincePreviousTick(p) /\ lastOp'.name = "tick") =>
                (IsLive(clients', p) /\ PingedIn(trace', p))]_vars
    /\ [][\A p \in Ports :
            (IsLive(clients, p) /\ clients'[p] = NoClient) =>
                \/ lastOp'.name = "destroy"
                \/ MessageFrom(lastOp', p) /\ lastOp'.msg.type = DISCONNECT]_vars

C6_Witness ==
    /\ lastOp.name = "tick"
    /\ now >= 3 * pingInterval
    /\ \E p \in Ports :
          /\ IsLive(clients, p)
          /\ PingedIn(trace, p)
          /\ clients[p].lastPong = now - pingInterval

----------------------------------------------------------------------------
(* C7 as stated: one peer connected at t=0 that answers nothing has been   *)
(* pinged at t=10000 and is Stale at t=15000 (total 0, stale 1).           *)
OnlySilentPeer(p) == Registered(clients) = {p} /\ clients[p].lastPong = 0

----------------------------------------------------------------------------
----------------------------------------------------------------------------
(* C8: with staleClientTimeout set, a heartbeat tick evicts exactly the    *)
(* entries that are Stale with now - staleTimestamp > staleClientTimeout   *)
(* (entry deleted, its listener detached, no longer counted as stale) and  *)
(* keeps the entries that have been Stale for a shorter time; a registered *)
(* peer that stays silent is eventually removed.                           *)
StaleTooLong(p) ==
    IsStale(clients, p) /\ now - clients[p].staleTimestamp > staleClientTimeout

C8_AutoEviction ==
    /\ [][(staleClientTimeout # Undefined /\ lastOp'.name = "tick") =>
            /\ \A p \in Ports :
                  IsStale(clients, p) =>
                      IF StaleTooLong(p)
                      THEN /\ clients'[p] = NoClient
                           /\ listeners'[p] = listeners[p] - 1
                           /\ HasEvent(trace', "Client removed", p)
                      ELSE clients'[p] = clients[p]
            /\ Registered(clients') = Registered(clients) \ { p \in Ports : StaleTooLong(p) }
            /\ getStaleCount(clients') =
                  Cardinality({ p \in Ports : IsStale(clients, p) /\ ~StaleTooLong(p) })
                  + Cardinality(MarkedStale(clients, now))]_vars
    /\ \A p \in Ports :
          (staleClientTimeout # Undefined /\ pingIntervalId
              /\ clients[p] # NoClient /\ clients[p].lastPong = 0)
          ~> (clients[p] = NoClient \/ clients[p].lastPong # 0 \/ ~pingIntervalId)

C8_Witness ==
    /\ lastOp.name = "tick"
    /\ staleClientTimeout = StaleTimeoutValue
    /\ now = 40000
    /\ \E p \in Ports : clients[p] = NoClient /\ HasEvent(trace, "Client removed", p)
    /\ \E q \in Ports : IsStale(clients, q) /\ clients[q].staleTimestamp = 30000

----------------------------------------------------------------------------
(* C10: the restoration of a Stale peer discards its stale clock; the      *)
(* restored entry is evicted by a later tick only for a later stale period *)
(* that has itself exceeded staleClientTimeout, and while the peer is seen *)
(* between ticks it stays Live and registered, also past the end of the    *)
(* earlier stale period plus staleClientTimeout.                           *)
C10_RestoredPeerNotEvicted ==
    /\ [][\A p \in Ports :
            (IsStale(clients, p) /\ MessageFrom(lastOp', p) /\ clients'[p] # NoClient) =>
                /\ IsLive(clients', p)
                /\ clients'[p].staleTimestamp = Undefined
                /\ restoredFrom'[p] = clients[p].staleTimestamp]_vars
    /\ [][\A p \in Ports :
            (restoredFrom[p] # Undefined /\ lastOp'.name = "tick") =>
                /\ clients'[p] = NoClient =>
                      /\ IsStale(clients, p)
                      /\ clients[p].staleTimestamp > restoredFrom[p]
                      /\ now - clients[p].staleTimestamp > staleClientTimeout
                /\ SeenSincePreviousTick(p) => IsLive(clients', p)]_vars

C10_Witness ==
    \E p \in Ports :
        /\ staleClientTimeout = StaleTimeoutValue
        /\ restoredFrom[p] = 20000
        /\ now = 40000
        /\ lastOp.name = "tick"
        /\ IsLive(clients, p)
        /\ clients[p].lastPong = 30000

----------------------------------------------------------------------------
(* C11: removeStaleClients() removes exactly the entries that are Stale    *)
(* when it is called (entry deleted, listener detached), returns their     *)
(* number, 0 when there is none, and leaves every Live entry with its      *)
(* visible flag, getTotalCount() and getActiveCount() as they were;        *)
(* afterwards getStaleCount() = 0.                                         *)
Returned(tr) == IF Len(tr) > 0 /\ tr[Len(tr)].kind = "return" THEN tr[Len(tr)].total
                ELSE Undefined

C11_RemoveStaleClientsExact ==
    [][lastOp'.name = "removeStaleClients" =>
          /\ Registered(clients') = Registered(clients) \ StaleSet(clients)
          /\ \A p \in Ports :
                /\ IsLive(clients, p) => (clients'[p] = clients[p]
                                             /\ listeners'[p] = listeners[p])
                /\ IsStale(clients, p) => (clients'[p] = NoClient
                                              /\ listeners'[p] = listeners[p] - 1
                                              /\ HasEvent(trace', "Client removed", p))
          /\ Returned(trace') = Cardinality(StaleSet(clients))
          /\ getTotalCount(clients') = getTotalCount(clients)
          /\ getActiveCount(clients') = getActiveCount(clients)
          /\ getStaleCount(clients') = 0]_vars

C11_Witness ==
    /\ lastOp.name = "removeStaleClients"
    /\ Returned(trace) = 1
    /\ getTotalCount(clients) = 1
    /\ getActiveCount(clients) = 0
    /\ \E p \in Ports : clients[p] = NoClient /\ HasEvent(trace, "Client removed", p)

----------------------------------------------------------------------------
(* C12: removeStaleClients() called again right after removeStaleClients() *)
(* returns 0, removes nothing and changes no entry, no listener and no     *)
(* count.                                                                  *)
C12_RemoveStaleClientsIdempotent ==
    [][(lastOp.name = "removeStaleClients" /\ lastOp'.name = "removeStaleClients") =>
          /\ Returned(trace') = 0
          /\ clients' = clients
          /\ listeners' = listeners
          /\ ~ \E p \in Ports : HasEvent(trace', "Client removed", p)
          /\ getTotalCount(clients') = getTotalCount(clients)
          /\ getActiveCount(clients') = getActiveCount(clients)
          /\ getStaleCount(clients') = 0]_vars

C12_Witness ==
    /\ lastOp = Op("removeStaleClients", NoPort, Again)
    /\ Returned(trace) = 0
    /\ now >= 2 * pingInterval
    /\ Cardinality(Registered(clients)) = 1
    /\ getTotalCount(clients) = 1

----------------------------------------------------------------------------
(* C13: every step that changes getTotalCount() or getActiveCount(),       *)
(* whatever operation it is, posts a client-count message to the Live      *)
(* peers with total = getTotalCount() and active = getActiveCount() and    *)
(* calls onActiveCountChange with the same two values, and these are the   *)
(* last counts the step reports.                                           *)
CountsChanged ==
    \/ getTotalCount(clients') # getTotalCount(clients)
    \/ getActiveCount(clients') # getActiveCount(clients)

CountEvents == {CLIENT_COUNT, "onActiveCountChange"}

Notified(tr, cl) ==
    \E i \in 1..(Len(tr) - 1) :
        /\ tr[i].kind = CLIENT_COUNT
        /\ tr[i].to = LiveSet(cl)
        /\ tr[i].total = getTotalCount(cl)
        /\ tr[i].active = getActiveCount(cl)
        /\ tr[i + 1].kind = "onActiveCountChange"
        /\ tr[i + 1].total = getTotalCount(cl)
        /\ tr[i + 1].active = getActiveCount(cl)
        /\ \A j \in (i + 2)..Len(tr) : tr[j].kind \notin CountEvents

C13_CountChangeNotified ==
    [][CountsChanged => Notified(trace', clients')]_vars

(* The same for every operation but destroy(), which removes the Live      *)
(* entries and reports nothing.                                            *)
C13_NotifiedExceptDestroy ==
    [][(CountsChanged /\ lastOp'.name # "destroy") => Notified(trace', clients')]_vars

----------------------------------------------------------------------------
(* C14: handleConnect(port) registers the port as Live and visible with    *)
(* lastPong = now and attaches its message listener, changes no other      *)
(* entry, makes getTotalCount() and getActiveCount() grow by exactly one   *)
(* when the port had no entry, and its client-count broadcast goes to the  *)
(* new peer and to every peer that was Live before.                        *)
C14_HandleConnectRegisters ==
    [][\A p \in Ports :
          (lastOp'.name = "handleConnect" /\ lastOp'.port = p) =>
              /\ IsLive(clients', p)
              /\ clients'[p].visible
              /\ clients'[p].lastPong = now
              /\ listeners'[p] = listeners[p] + 1
              /\ \A q \in Ports \ {p} : clients'[q] = clients[q]
              /\ clients[p] = NoClient =>
                    /\ getTotalCount(clients') = getTotalCount(clients) + 1
                    /\ getActiveCount(clients') = getActiveCount(clients) + 1
              /\ Notified(trace', clients')
              /\ \E i \in 1..Len(trace') :
                    /\ trace'[i].kind = CLIENT_COUNT
                    /\ trace'[i].to = LiveSet(clients) \cup {p}]_vars

C14_Witness ==
    \E p, q \in Ports :
        /\ p # q
        /\ lastOp = Op("handleConnect", p, NoMsg)
        /\ connects[p] = 1
        /\ IsLive(clients, q) /\ ~clients[q].visible
        /\ \E i \in 1..Len(trace) :
              /\ trace[i].kind = CLIENT_COUNT
              /\ trace[i].to = {p, q}
              /\ trace[i].total = 2
              /\ trace[i].active = 1

----------------------------------------------------------------------------
(* C15: Removed is terminal: a message that arrives on the port of a       *)
(* removed entry creates no entry, changes no count and is not passed to   *)
(* onMessage.                                                              *)
C15_RemovedIsTerminal ==
    [][\A p \in Ports :
          (clients[p] = NoClient /\ MessageFrom(lastOp', p)) =>
              /\ clients'[p] = NoClient
              /\ getTotalCount(clients') = getTotalCount(clients)
              /\ getActiveCount(clients') = getActiveCount(clients)
              /\ ~HasEvent(trace', "onMessage", p)]_vars

----------------------------------------------------------------------------
(* C16: a port has an entry if and only if the AbortController of its      *)
(* message listener has not been aborted: the listener of an entry is      *)
(* attached, a port without entry has no attached listener, every step     *)
(* that deletes an entry detaches one listener of its port and none is     *)
(* detached otherwise.                                                     *)
AttachedMatchesEntry(cl, ls) ==
    \A p \in Ports : IF cl[p] # NoClient THEN ls[p] >= 1 ELSE ls[p] = 0

C16_EntryIffListenerAttached ==
    /\ []AttachedMatchesEntry(clients, listeners)
    /\ [][\A p \in Ports :
            /\ (clients[p] # NoClient /\ clients'[p] = NoClient) =>
                  listeners'[p] = listeners[p] - 1
            /\ listeners'[p] < listeners[p] =>
                  (clients[p] # NoClient /\ listeners'[p] = listeners[p] - 1)]_vars

----------------------------------------------------------------------------
(* C17: destroy() clears the heartbeat timer, which is never armed again,  *)
(* so that no sweep runs and no ping is posted afterwards; it removes      *)
(* every entry and detaches its listener, so that getTotalCount(),         *)
(* getActiveCount() and getStaleCount() are 0; destroy() called again      *)
(* right after destroy() changes nothing.                                  *)
C17_DestroyStopsAndClears ==
    /\ [][lastOp'.name = "destroy" =>
            /\ ~pingIntervalId'
            /\ Registered(clients') = {}
            /\ getTotalCount(clients') = 0
            /\ getActiveCount(clients') = 0
            /\ getStaleCount(clients') = 0
            /\ \A p \in Ports :
                  clients[p] # NoClient =>
                      /\ listeners'[p] = listeners[p] - 1
                      /\ HasEvent(trace', "Client removed", p)]_vars
    /\ [][~pingIntervalId =>
            /\ ~pingIntervalId'
            /\ lastOp'.name # "tick"
            /\ \A i \in 1..Len(trace') : trace'[i].kind # PING]_vars
    /\ [][(lastOp.name = "destroy" /\ lastOp'.name = "destroy") =>
            /\ clients' = clients
            /\ listeners' = listeners
            /\ pingIntervalId' = pingIntervalId
            /\ trace' = <<LogEv("PortManager destroyed")>>]_vars

C17_Witness ==
    /\ lastOp = Op("destroy", NoPort, NoMsg)
    /\ ~pingIntervalId
    /\ nextTick <= now
    /\ Registered(clients) = {}
    /\ \E p, q \in Ports :
          /\ p # q
          /\ HasEvent(trace, "Client removed", p)
          /\ HasEvent(trace, "Client removed", q)

C17_SecondDestroy ==
    /\ lastOp = Op("destroy", NoPort, Again)
    /\ ~pingIntervalId
    /\ nextTick <= now

----------------------------------------------------------------------------
(* C18: a postMessage that throws during a broadcast (of an application    *)
(* message or of the client counts) is caught: nothing is raised to the    *)
(* caller and every other Live entry still receives the message, so that   *)
(* at most the failing entry is missing among the recipients.              *)
Raised(tr, what) == \E i \in 1..Len(tr) : tr[i].kind = "throw" /\ what \in tr[i].to

AllButOne(tr, kind, cl) ==
    \A i \in 1..Len(tr) :
        tr[i].kind = kind => Cardinality(LiveSet(cl) \ tr[i].to) <= 1

C18_BroadcastIsolatesFailures ==
    /\ ~Raised(trace, "postMessage")
    /\ lastOp.name = "broadcast" =>
          /\ \E i \in 1..Len(trace) : trace[i].kind = "custom"
          /\ AllButOne(trace, "custom", clients)
    /\ lastOp.name = "handleConnect" => AllButOne(trace, CLIENT_COUNT, clients)

----------------------------------------------------------------------------
(* C19: an exception thrown by a callback of the host (onMessage, onLog)   *)
(* is caught where the callback is called: nothing is raised, a heartbeat  *)
(* sweep still stales every silent Live entry and pings every other Live   *)
(* entry, and a count recompute still posts the counts to the Live peers.  *)
C19_CallbackFailureContained ==
    [][/\ ~Raised(trace', "onLog")
       /\ ~Raised(trace', "onMessage")
       /\ (lastOp'.name = "tick" /\ ~Raised(trace', "postMessage")) =>
             /\ \A p \in MarkedStale(clients, now) : IsStale(clients', p)
             /\ \A p \in Pinged(clients, now) : PingedIn(trace', p)
       /\ (lastOp'.name = "handleConnect" /\ ~Raised(trace', "postMessage")) =>
             \E i \in 1..Len(trace') :
                 /\ trace'[i].kind = CLIENT_COUNT
                 /\ trace'[i].to = LiveSet(clients')]_vars

----------------------------------------------------------------------------
(* C20: onMessage is never called with a message whose type has the        *)
(* reserved prefix '@shared-worker-utils/' (ping, pong, visibility-change, *)
(* disconnect, client-count), and every other message is passed to         *)
(* onMessage with the port it came from.                                   *)
InternalTypes == {PING, PONG, VISIBILITY_CHANGE, DISCONNECT, CLIENT_COUNT}

C20_InternalMessagesFiltered ==
    /\ \A i \in 1..Len(trace) :
          trace[i].kind = "onMessage" => trace[i].to \cap InternalTypes = {}
    /\ (lastOp.name = "message" /\ lastOp.msg.type \notin InternalTypes) =>
          \E i \in 1..Len(trace) :
              /\ trace[i].kind = "onMessage"
              /\ trace[i].port = lastOp.port
              /\ trace[i].to = {lastOp.msg.type}

(* The part of C20 that the switch of handleMessage guarantees: pong,      *)
(* visibility-change and disconnect never reach onMessage.                 *)
C20_HandledTypesFiltered ==
    /\ \A i \in 1..Len(trace) :
          trace[i].kind = "onMessage" =>
              trace[i].to \cap {PONG, VISIBILITY_CHANGE, DISCONNECT} = {}
    /\ (lastOp.name = "message" /\ lastOp.msg.type \notin InternalTypes) =>
          \E i \in 1..Len(trace) :
              /\ trace[i].kind = "onMessage"
              /\ trace[i].port = lastOp.port
              /\ trace[i].to = {lastOp.msg.type}

----------------------------------------------------------------------------
(* C21: whenever a SharedWorkerClient that has not been destroyed receives *)
(* a ping, it posts exactly one pong on the same port and nothing else,    *)
(* and the ping is not passed to the onMessage of the host.                *)
ClientGot(op, p, type) ==
    op.name = "client.message" /\ op.port = p /\ op.msg.type = type

C21_PingAnsweredWithPong ==
    [][\A p \in Ports :
          (ClientGot(lastOp', p, PING) /\ wrapper[p].state = "open") =>
              /\ toWorker'[p] = Append(toWorker[p], [type |-> PONG, visible |-> "absent"])
              /\ \A q \in Ports \ {p} : toWorker'[q] = toWorker[q]
              /\ ~HasEvent(trace', "client.onMessage", p)]_vars

C21_Witness ==
    \E p \in Ports :
        /\ ClientGot(lastOp, p, PING)
        /\ wrapper[p].state = "open"
        /\ clients[p] # NoClient
        /\ toWorker[p] # <<>>
        /\ toWorker[p][Len(toWorker[p])].type = PONG
        /\ HasEvent(trace, "Received ping from SharedWorker, sending pong", p)

----------------------------------------------------------------------------
(* C22: SharedWorkerClient never calls onMessage with a message whose type *)
(* has the reserved prefix '@shared-worker-utils/' (one of the five        *)
(* internal types or any other type under the prefix), and passes every    *)
(* other message to onMessage as it was received.                          *)
HasReservedPrefix(type) == type \in MESSAGE_TYPES \cup {OtherInternal}

PassedUnmodified ==
    [][\A p \in Ports :
          (/\ lastOp'.name = "client.message"
           /\ lastOp'.port = p
           /\ wrapper[p].state = "open"
           /\ ~HasReservedPrefix(lastOp'.msg.type)) =>
              trace' = <<CEv("client.onMessage", p, lastOp'.msg)>>]_vars

C22_ClientFiltersPrefixed ==
    /\ [](\A i \in 1..Len(trace) :
             trace[i].kind = "client.onMessage" => ~HasReservedPrefix(trace[i].msg.type))
    /\ PassedUnmodified

(* The part of C22 that the filter of handleMessage guarantees: the five   *)
(* types of MESSAGE_TYPES never reach onMessage.                           *)
C22_ConstantsFiltered ==
    /\ [](\A i \in 1..Len(trace) :
             trace[i].kind = "client.onMessage" => trace[i].msg.type \notin MESSAGE_TYPES)
    /\ PassedUnmodified

----------------------------------------------------------------------------
(* C23: after a client has called disconnect(), once its disconnect        *)
(* message has been delivered the manager holds no entry and no listener   *)
(* for its port, posts no ping, no count and no broadcast to it, and the   *)
(* client, whose listeners are detached, posts nothing more: it answers no *)
(* ping and reports no visibility change.                                  *)
DisconnectDelivered(p) ==
    wrapper[p].disconnected /\ wrapper[p].accepted /\ toWorker[p] = <<>>

PostedTo(tr, p) ==
    \E i \in 1..Len(tr) :
        tr[i].kind \in {PING, CLIENT_COUNT, "custom"} /\ p \in tr[i].to

C23_DisconnectIsFinal ==
    /\ [](\A p \in Ports :
             DisconnectDelivered(p) =>
                 /\ clients[p] = NoClient
                 /\ listeners[p] = 0)
    /\ [][\A p \in Ports :
             DisconnectDelivered(p) =>
                 /\ clients'[p] = NoClient
                 /\ ~PostedTo(trace', p)
                 /\ lastOp'.name \in {"tick", "broadcast", "message", "handleConnect"} =>
                       toClient'[p] = toClient[p]]_vars
    /\ [][\A p \in Ports :
             wrapper[p].disconnected =>
                 /\ wrapper'[p].state = "destroyed"
                 /\ toWorker'[p] \in {toWorker[p], SubSeq(toWorker[p], 2, Len(toWorker[p]))}
                 /\ ~HasEvent(trace', "client.onMessage", p)]_vars

C23_Witness ==
    \E p \in Ports :
        /\ DisconnectDelivered(p)
        /\ ClientGot(lastOp, p, PING)
        /\ trace = <<>>
        /\ now >= pingInterval

(* After the disconnect the heartbeat still ticks and the host still       *)
(* broadcasts, to nobody.                                                  *)
C23_SweepAfterDisconnect ==
    \E p \in Ports :
        /\ DisconnectDelivered(p)
        /\ lastOp.name = "tick"
        /\ wrapper[p].state = "destroyed"

----------------------------------------------------------------------------
(* C24: remove(id) returns true exactly when id is registered; it then     *)
(* fires the cancellation scope of the entry (the AbortController in its   *)
(* meta), deletes the entry, so that get(id) is absent and size() one      *)
(* less, and calls every 'remove' subscriber exactly once with the removed *)
(* entry; for an id that is not registered it returns false, changes       *)
(* nothing and emits nothing.                                              *)
Subscribed(r, event) == IF event \in DOMAIN r.listeners THEN r.listeners[event] ELSE <<>>

EventsOf(tr, kind) == SelectSeq(tr, LAMBDA e : e.kind = kind)

OneCallEach(callbacks, event, entry) ==
    [i \in 1..Len(callbacks) |-> REv(event, callbacks[i], entry)]

ScopeFired(r, entry) == entry.meta \in Controllers => entry.meta \in r.aborted

RemoveEffect(id, withScope) ==
    LET entry == registry.ports[id]
    IN  IF entry # NoEntry
        THEN /\ EventsOf(trace', "return") = <<ReturnsValue(TRUE)>>
             /\ withScope => ScopeFired(registry', entry)
             /\ get(registry', id) = "undefined"
             /\ getEntry(registry', id) = NoEntry
             /\ size(registry') = size(registry) - 1
             /\ \A other \in RegIds \ {id} : registry'.ports[other] = registry.ports[other]
             /\ EventsOf(trace', "remove") =
                    OneCallEach(Subscribed(registry, "remove"), "remove", entry)
             /\ EventsOf(trace', "add") = <<>>
        ELSE /\ trace' = <<ReturnsValue(FALSE)>>
             /\ registry' = registry

C24_RemoveExact ==
    [][\A id \in RegIds :
          (lastOp'.name = "remove" /\ lastOp'.port = id) => RemoveEffect(id, TRUE)]_vars

(* The part of C24 that remove guarantees: everything but the cancellation *)
C24_RemoveExceptScope ==
    [][\A id \in RegIds :
          (lastOp'.name = "remove" /\ lastOp'.port = id) => RemoveEffect(id, FALSE)]_vars

C24_RemovedWithSubscribers ==
    /\ lastOp.name = "remove"
    /\ Len(EventsOf(trace, "remove")) = 2
    /\ size(registry) = 1

----------------------------------------------------------------------------
(* C25: shutdown() calls every 'remove' subscriber once for every          *)
(* registered entry, fires the cancellation scope of every entry, leaves   *)
(* the registry empty (size() = 0, list() empty) and clears all            *)
(* subscriptions; a callback is only ever called while it is subscribed,   *)
(* so one subscribed before shutdown is not called for a register or a     *)
(* remove made afterwards.                                                 *)
Occurrences(tr, e) == Cardinality({ i \in 1..Len(tr) : tr[i] = e })

InSeq(x, seq) == \E i \in 1..Len(seq) : seq[i] = x

ShutdownEffect(withScope) ==
    /\ \A id \in RegIds :
          registry.ports[id] # NoEntry =>
              /\ \A callback \in Callbacks :
                    InSeq(callback, Subscribed(registry, "remove")) =>
                        Occurrences(trace', REv("remove", callback, registry.ports[id])) = 1
              /\ withScope => ScopeFired(registry', registry.ports[id])
    /\ Len(EventsOf(trace', "remove"))
           = size(registry) * Len(Subscribed(registry, "remove"))
    /\ size(registry') = 0
    /\ list(registry') = <<>>
    /\ \A id \in RegIds : get(registry', id) = "undefined"
    /\ \A event \in RegistryEvents : Subscribed(registry', event) = <<>>

OnlySubscribersCalled ==
    [][\A i \in 1..Len(trace') :
          trace'[i].kind \in RegistryEvents =>
              InSeq(trace'[i].port, Subscribed(registry, trace'[i].kind))]_vars

C25_ShutdownClearsAll ==
    /\ [][lastOp'.name = "shutdown" => ShutdownEffect(TRUE)]_vars
    /\ OnlySubscribersCalled

(* The part of C25 that shutdown guarantees: everything but the            *)
(* cancellation                                                            *)
C25_ShutdownExceptScope ==
    /\ [][lastOp'.name = "shutdown" => ShutdownEffect(FALSE)]_vars
    /\ OnlySubscribersCalled

C25_ShutdownWithEntries ==
    /\ lastOp.name = "shutdown"
    /\ Len(EventsOf(trace, "remove")) = 4

C25_RegisterAfterShutdown ==
    /\ lastOp.name = "register"
    /\ DOMAIN registry.listeners = {}
    /\ EventsOf(trace, "add") = <<>>

----------------------------------------------------------------------------
(* C26: register(id, port, meta) with an id that is already registered     *)
(* replaces the entry: afterwards get(id) is the port just supplied,       *)
(* size() is what it was, the entry holds exactly the id, the port and the *)
(* meta of this call (nothing of the previous entry), the id keeps its     *)
(* place in list() and the other entries are untouched.                    *)
C26_RegisterReplaces ==
    [][\A id \in RegIds :
          (lastOp'.name = "register" /\ lastOp'.port = id
              /\ getEntry(registry, id) # NoEntry) =>
              /\ get(registry', id) = lastOp'.msg.port
              /\ size(registry') = size(registry)
              /\ getEntry(registry', id)
                     = [id |-> id, port |-> lastOp'.msg.port, meta |-> lastOp'.msg.meta]
              /\ registry'.keys = registry.keys
              /\ \A other \in RegIds \ {id} :
                    getEntry(registry', other) = getEntry(registry, other)]_vars

(* "b" was registered before "a" and has just been registered again, with  *)
(* another port and without meta: a removal in between would have moved it *)
(* behind "a".                                                             *)
C26_Witness ==
    /\ lastOp.name = "register"
    /\ lastOp.port = "b"
    /\ registry.keys = <<"b", "a">>
    /\ getEntry(registry, "b") = [id |-> "b", port |-> "y", meta |-> "undefined"]
    /\ getEntry(registry, "a").meta = "k1"

----------------------------------------------------------------------------
(* C27: close() is idempotent.  The first close() leaves the connection    *)
(* disconnected, takes the message listener off the port and calls each    *)
(* registered close callback exactly once; a close() of a disconnected     *)
(* connection changes nothing and calls nothing; and no message callback   *)
(* is called once the connection is disconnected.                          *)
CallsOf(kind, callbacks) ==
    [i \in 1..Len(callbacks) |-> [kind |-> kind, port |-> callbacks[i]]]

C27_ClosedAgain ==
    /\ lastOp.name = "close"
    /\ connection.state = "disconnected"
    /\ trace = <<>>

----------------------------------------------------------------------------
(* C28: send() never throws to its caller.  On a disconnected connection   *)
(* nothing reaches postMessage and a warn-level entry is logged; when      *)
(* postMessage throws, the error is logged at error level and the state of *)
(* the connection is unchanged.                                            *)
HasLevel(tr, level) ==
    \E i \in 1..Len(tr) : tr[i].kind \notin {"throw", "uncaught"} /\ tr[i].level = level

SendEffect ==
    /\ ~InSeq(Uncaught, trace')
    /\ connection.state = "disconnected" =>
          /\ connection'.posted = connection.posted
          /\ ~Raised(trace', "postMessage")
          /\ HasLevel(trace', "warn")
    /\ Raised(trace', "postMessage") =>
          /\ HasLevel(trace', "error")
          /\ connection' = connection

C28_SendNeverThrows == [][lastOp'.name = "send" => SendEffect]_vars

(* What send() guarantees: the same, as long as the onLog option does not  *)
(* throw                                                                   *)
C28_SendWithSoundLog ==
    [][(lastOp'.name = "send" /\ ~Raised(trace', "onLog")) => SendEffect]_vars

C28_PostMessageThrew ==
    /\ lastOp.name = "send"
    /\ Raised(trace, "postMessage")
    /\ HasLevel(trace, "error")
    /\ connection.state = "connected"

C28_SentWhenDisconnected ==
    /\ lastOp.name = "send"
    /\ connection.state = "disconnected"
    /\ HasLevel(trace, "warn")

----------------------------------------------------------------------------
(* C29: a heartbeat tick posts a ping to exactly the entries that are Live *)
(* with now - lastPong <= pingInterval + pingTimeout, once each; an entry  *)
(* exactly at the threshold is still pinged, and an entry that is Stale or *)
(* that this sweep marks Stale gets no ping.                               *)
WithinThreshold(p) ==
    IsLive(clients, p) /\ now - clients[p].lastPong <= pingInterval + pingTimeout

PingsTo(tr, p) == Cardinality({ i \in 1..Len(tr) : tr[i].kind = PING /\ p \in tr[i].to })

C29_PingExactlyResponsive ==
    [][lastOp'.name = "tick" =>
          \A p \in Ports :
              /\ WithinThreshold(p) => PingsTo(trace', p) = 1
              /\ ~WithinThreshold(p) => PingsTo(trace', p) = 0
              /\ (IsStale(clients, p) \/ (IsLive(clients, p) /\ IsStale(clients', p)))
                     => ~PingedIn(trace', p)]_vars

(* The sweep at t=20000 finds one peer exactly at the threshold, which it   *)
(* pings, and marks the peer silent since t=0 Stale without a ping.        *)
C29_Witness ==
    /\ lastOp.name = "tick"
    /\ now = 20000
    /\ \E p, q \in Ports :
          /\ IsLive(clients, p)
          /\ clients[p].lastPong = now - (pingInterval + pingTimeout)
          /\ PingedIn(trace, p)
          /\ IsStale(clients, q)
          /\ clients[q].lastPong = 0
          /\ ~PingedIn(trace, q)

----------------------------------------------------------------------------
----------------------------------------------------------------------------
(* C31: a heartbeat sweep that marks k >= 1 entries Stale recomputes the   *)
(* counts exactly once (one client-count broadcast, one                    *)
(* onActiveCountChange call, both with the counts after the sweep) and     *)
(* logs exactly one event that carries the counts of the whole sweep,      *)
(* whatever k is; a sweep that marks no entry and evicts none recomputes   *)
(* nothing and logs no such event.                                         *)
SweepReports(tr, n) ==
    /\ Len(EventsOf(tr, CLIENT_COUNT)) = n
    /\ Len(EventsOf(tr, "onActiveCountChange")) = n
    /\ Len(EventsOf(tr, "Client status update")) = n

----------------------------------------------------------------------------
(* C32: the HeartbeatManager has at most one active interval at any time.  *)
(* onInterval(callback) clears the current interval before it sets the new *)
(* one, so that only the callback given last is ever run, once per         *)
(* pingInterval counted from the call; stop() leaves no active interval,   *)
(* no callback runs while none is active, and stop() on a stopped manager  *)
(* changes nothing.                                                        *)
C32_SingleInterval ==
    /\ [](Cardinality(ActiveTimers(heartbeat)) <= 1)
    /\ [](ActiveTimers(heartbeat) = {} => lastOp.name # "interval")
    /\ [][lastOp'.name = "onInterval" =>
             /\ ActiveTimers(heartbeat') = {heartbeat'.intervalId}
             /\ heartbeat'.intervalId \notin ActiveTimers(heartbeat)
             /\ heartbeat'.timers[heartbeat'.intervalId].callback = lastOp'.port
             /\ heartbeat'.timers[heartbeat'.intervalId].due = now + pingInterval]_vars
    /\ [][lastOp'.name = "interval" =>
             /\ heartbeat.timers[heartbeat.intervalId].active
             /\ lastOp'.port = heartbeat.timers[heartbeat.intervalId].callback
             /\ now = heartbeat.timers[heartbeat.intervalId].due
             /\ Len(trace') = 1
             /\ DueTimers(heartbeat', now) = {}
             /\ heartbeat'.timers[heartbeat.intervalId].due = now + pingInterval]_vars
    /\ [][lastOp'.name = "stop" =>
             /\ ActiveTimers(heartbeat') = {}
             /\ ActiveTimers(heartbeat) = {} => heartbeat' = heartbeat]_vars

(* The callback given by the second replacement runs, out of phase with    *)
(* the two intervals it replaced                                           *)
C32_Witness ==
    /\ lastOp.name = "interval"
    /\ lastOp.port = "g"
    /\ heartbeat.count = 3
    /\ heartbeat.timers[2].callback = "f"
    /\ heartbeat.timers[2].due = 20000
    /\ now = 25000

(* stop() after the interval was replaced: nothing is left active *)
C32_Stopped ==
    /\ lastOp.name = "stop"
    /\ heartbeat.count = 2
    /\ ActiveTimers(heartbeat) = {}
    /\ now = HeartbeatTime

----------------------------------------------------------------------------
(* C33: handle(port, data) calls exactly one callback, chosen by data.type *)
(* alone: visibility-change calls onVisibilityChange(port, visible) with   *)
(* an absent visible read as true, disconnect calls onDisconnect(port),    *)
(* pong calls onPong(port), and every other type (ping, client-count, an   *)
(* absent type, an application type) calls onAppMessage(port, data) with   *)
(* the data as received; when the chosen callback was not supplied nothing *)
(* is called, and the handler itself is left unchanged.                    *)
ChosenCallback(data) ==
    CASE data.type = VISIBILITY_CHANGE -> "onVisibilityChange"
      [] data.type = DISCONNECT -> "onDisconnect"
      [] data.type = PONG -> "onPong"
      [] OTHER -> "onAppMessage"

ChosenArgument(data) ==
    CASE data.type = VISIBILITY_CHANGE ->
             (IF data.visible = "false" THEN "false" ELSE "true")
      [] data.type \in {DISCONNECT, PONG} -> "none"
      [] OTHER -> data

C33_HandleRoutesByType ==
    [][lastOp'.name = "handle" =>
          /\ handler' = handler
          /\ IF ChosenCallback(lastOp'.msg) \in handler
             THEN trace' = <<[kind |-> ChosenCallback(lastOp'.msg),
                              port |-> lastOp'.port,
                              argument |-> ChosenArgument(lastOp'.msg)]>>
             ELSE trace' = <<>>]_vars

(* A visibility-change without the visible field reaches                   *)
(* onVisibilityChange as visible                                           *)
C33_Witness ==
    /\ lastOp.name = "handle"
    /\ lastOp.msg = [type |-> VISIBILITY_CHANGE, visible |-> "absent"]
    /\ trace = <<[kind |-> "onVisibilityChange", port |-> lastOp.port, argument |-> "true"]>>

(* A ping passed to the handler goes to onAppMessage as it is, and a       *)
(* message whose callback was not supplied calls nothing                   *)
C33_PingPassedThrough ==
    /\ lastOp.name = "handle"
    /\ lastOp.msg.type = PING
    /\ trace = <<[kind |-> "onAppMessage", port |-> lastOp.port, argument |-> lastOp.msg]>>
    /\ "onPong" \notin handler

----------------------------------------------------------------------------
(* C34: every inbound message of a peer, a pong or an application message  *)
(* alike, sets the lastPong of its entry to now, so that lastPong is       *)
(* always the time of the peer's most recent inbound traffic (and a sweep  *)
(* can mark stale only a peer that has sent nothing for longer than the    *)
(* threshold).                                                             *)
C34_LastSeenRefreshed ==
    [][\A p \in Ports :
          (MessageFrom(lastOp', p) /\ clients'[p] # NoClient) =>
              clients'[p].lastPong = now]_vars

(* What handleMessage does: a pong, and any message that finds no entry or *)
(* a Stale entry, sets lastPong to now; every other message of a Live peer *)
(* leaves lastPong as it was.                                              *)
C34_RefreshedByPongOrRestore ==
    [][\A p \in Ports :
          (MessageFrom(lastOp', p) /\ clients'[p] # NoClient) =>
              IF lastOp'.msg.type = PONG \/ ~IsLive(clients, p)
              THEN clients'[p].lastPong = now
              ELSE clients'[p].lastPong = clients[p].lastPong]_vars

(* An application message that arrives at t=15000 from a peer connected at *)
(* t=0 is passed to onMessage and leaves lastPong at 0: the sweep at       *)
(* t=20000 finds the peer past the threshold.                              *)
C34_TrafficNotRecorded ==
    \E p \in Ports :
        /\ MessageFrom(lastOp, p)
        /\ lastOp.msg.type = "custom"
        /\ IsLive(clients, p)
        /\ now = 15000
        /\ clients[p].lastPong = 0
        /\ HasEvent(trace, "onMessage", p)

----------------------------------------------------------------------------
(* C35: visibility and liveness are independent.  A sweep that marks an    *)
(* entry Stale leaves its visible flag as it was; so does the restoration  *)
(* of a Stale entry, after which only a visibility-change message sets the *)
(* flag, to the value it carries; a visibility-change message of a Live    *)
(* peer sets the flag and leaves the entry Live; and the Live entries that *)
(* are not visible are exactly those counted by getTotalCount() and not by *)
(* getActiveCount().                                                       *)
LiveInvisibleSet(cl) == { p \in Ports : IsLive(cl, p) /\ ~cl[p].visible }

C35_VisibilityIndependentOfStatus ==
    /\ [][\A p \in Ports :
             (lastOp'.name = "tick" /\ IsLive(clients, p) /\ IsStale(clients', p)) =>
                 clients'[p].visible = clients[p].visible]_vars
    /\ [][\A p \in Ports :
             (MessageFrom(lastOp', p) /\ IsStale(clients, p) /\ clients'[p] # NoClient) =>
                 /\ IsLive(clients', p)
                 /\ clients'[p].visible =
                       IF lastOp'.msg.type = VISIBILITY_CHANGE
                       THEN visibleOrDefault(lastOp'.msg)
                       ELSE clients[p].visible]_vars
    /\ [][\A p \in Ports :
             (MessageFrom(lastOp', p) /\ IsLive(clients, p)
                 /\ lastOp'.msg.type = VISIBILITY_CHANGE) =>
                 /\ IsLive(clients', p)
                 /\ clients'[p].visible = visibleOrDefault(lastOp'.msg)
                 /\ clients'[p].lastPong = clients[p].lastPong]_vars
    /\ [](getTotalCount(clients) - getActiveCount(clients)
             = Cardinality(LiveInvisibleSet(clients)))

(* A hidden peer that was Stale has been restored by an application        *)
(* message and is Live and still hidden: it counts in the total only.      *)
C35_Witness ==
    \E p \in Ports :
        /\ MessageFrom(lastOp, p)
        /\ lastOp.msg.type = "custom"
        /\ HasEvent(trace, "Restoring stale client to connected status", p)
        /\ IsLive(clients, p)
        /\ ~clients[p].visible
        /\ getTotalCount(clients) = 1
        /\ getActiveCount(clients) = 0

----------------------------------------------------------------------------
(* C36: on a visibilitychange event a client that has not been destroyed   *)
(* posts one visibility-change message carrying the new value exactly when *)
(* the visibility of the document differs from the value it recorded last, *)
(* and records it; it posts nothing when the event brings no change; no    *)
(* other step posts a visibility-change message; and getIsVisible() is the *)
(* visibility of the document for as long as the client listens.           *)
VisibilityMessage(visible) ==
    [type |-> VISIBILITY_CHANGE, visible |-> IF visible THEN "true" ELSE "false"]

C36_VisibilitySentOnChange ==
    /\ [][\A p \in Ports :
             (lastOp'.name = "visibilitychange" /\ lastOp'.port = p
                 /\ wrapper[p].state = "open") =>
                 IF ~wrapper'[p].hidden # getIsVisible(wrapper[p])
                 THEN /\ toWorker'[p] =
                             Append(toWorker[p], VisibilityMessage(~wrapper'[p].hidden))
                      /\ getIsVisible(wrapper'[p]) = ~wrapper'[p].hidden
                 ELSE /\ toWorker'[p] = toWorker[p]
                      /\ getIsVisible(wrapper'[p]) = getIsVisible(wrapper[p])
                      /\ trace' = <<>>]_vars
    /\ [][\A p \in Ports :
             (Len(toWorker'[p]) > Len(toWorker[p])
                 /\ toWorker'[p][Len(toWorker'[p])].type = VISIBILITY_CHANGE) =>
                 (lastOp'.name = "visibilitychange" /\ lastOp'.port = p)]_vars
    /\ [](\A p \in Ports :
             wrapper[p].state = "open" => getIsVisible(wrapper[p]) = ~wrapper[p].hidden)

(* The tab has just been hidden: the client recorded it and posted the     *)
(* message                                                                 *)
C36_Witness ==
    /\ lastOp.name = "visibilitychange"
    /\ wrapper["p1"].state = "open"
    /\ ~getIsVisible(wrapper["p1"])
    /\ toWorker["p1"] = <<VisibilityMessage(FALSE)>>

(* A visibilitychange event that brought no change: nothing was posted or  *)
(* logged                                                                  *)
C36_EventWithoutChange ==
    /\ lastOp.name = "visibilitychange"
    /\ wrapper["p1"].state = "open"
    /\ wrapper["p1"].accepted
    /\ getIsVisible(wrapper["p1"])
    /\ toWorker["p1"] = <<>>
    /\ trace = <<>>

----------------------------------------------------------------------------
(* C37: when no message of a client is in flight, the visible flag the     *)
(* manager holds for its Live entry equals the client's getIsVisible(),    *)
(* also for a client whose tab was hidden when it was constructed.         *)
Quiescent(p) ==
    /\ wrapper[p].state # "none"
    /\ toWorker[p] = <<>>
    /\ IsLive(clients, p)

C37_ManagerAgreesWithClient ==
    \A p \in Ports : Quiescent(p) => clients[p].visible = getIsVisible(wrapper[p])

(* What holds: the two can differ only one way, with the manager counting  *)
(* as visible a client that is hidden; the manager never holds a client    *)
(* that is visible as hidden.                                              *)
C37_OnlyHiddenMiscounted ==
    \A p \in Ports :
        (Quiescent(p) /\ ~clients[p].visible) => ~getIsVisible(wrapper[p])

(* A client constructed in a hidden tab and registered: nothing in flight, *)
(* the client reports hidden, the manager counts it as active              *)
C37_HiddenTabCounted ==
    /\ Quiescent("p1")
    /\ lastOp.name = "handleConnect"
    /\ ~getIsVisible(wrapper["p1"])
    /\ clients["p1"].visible
    /\ getActiveCount(clients) = 1

----------------------------------------------------------------------------
(* C38: every inbound message is handled exactly once, also after          *)
(* handleConnect was called twice with the same port: the second           *)
(* registration replaces the entry, at most one message listener is        *)
(* attached per port, and one application message causes exactly one       *)
(* onMessage call.                                                         *)
OnMessageCalls(tr, p, m) == Occurrences(tr, Ev("onMessage", p, {m.type}, 0, 0))

C38_HandledExactlyOnce ==
    /\ [](\A p \in Ports : listeners[p] <= 1)
    /\ [][\A p \in Ports :
            /\ (lastOp'.name = "handleConnect" /\ lastOp'.port = p) =>
                  clients'[p] = [visible |-> TRUE, lastPong |-> now,
                                 status |-> "connected",
                                 staleTimestamp |-> Undefined]
            /\ (lastOp'.name = "message" /\ lastOp'.port = p
                    /\ IsApplication(lastOp'.msg)) =>
                  OnMessageCalls(trace', p, lastOp'.msg) = 1]_vars

(* What holds: the second registration replaces the entry, and a message   *)
(* is handled once by every listener attached to its port, the listeners   *)
(* of earlier registrations included.                                      *)
C38_HandledOncePerListener ==
    [][\A p \in Ports :
          /\ (lastOp'.name = "handleConnect" /\ lastOp'.port = p) =>
                /\ clients'[p] = [visible |-> TRUE, lastPong |-> now,
                                  status |-> "connected",
                                  staleTimestamp |-> Undefined]
                /\ listeners'[p] = listeners[p] + 1
          /\ (lastOp'.name = "message" /\ lastOp'.port = p
                  /\ IsApplication(lastOp'.msg)) =>
                OnMessageCalls(trace', p, lastOp'.msg) = listeners[p]]_vars

(* A port registered twice has sent one application message: onMessage was *)
(* called twice                                                            *)
C38_HandledTwice ==
    /\ lastOp.name = "message"
    /\ lastOp.msg.type = "custom"
    /\ listeners[lastOp.port] = 2
    /\ clients[lastOp.port] # NoClient
    /\ OnMessageCalls(trace, lastOp.port, lastOp.msg) = 2

----------------------------------------------------------------------------
(* C39: onActiveCountChange is called when the active or the total count   *)
(* changes and not otherwise: a step that leaves both counts as they were, *)
(* such as a visibility-change message that repeats the visibility the     *)
(* manager already holds, calls it not at all.                             *)
CountCallbacks(tr) == { i \in 1..Len(tr) : tr[i].kind = "onActiveCountChange" }

C39_CalledOnlyOnChange ==
    [][~CountsChanged => CountCallbacks(trace') = {}]_vars

(* What holds: whenever onActiveCountChange is called, the last call of    *)
(* the step reports the counts as they are after the step.                 *)
C39_CallsReportCurrentCounts ==
    [][\A i \in CountCallbacks(trace') :
          (\A j \in CountCallbacks(trace') : j <= i) =>
              /\ trace'[i].total = getTotalCount(clients')
              /\ trace'[i].active = getActiveCount(clients')]_vars

(* A visibility-change message was handled for a Live peer and the         *)
(* callback was called with the counts                                     *)
C39_CalledOnVisibilityMessage ==
    /\ lastOp.name = "message"
    /\ lastOp.msg = [type |-> VISIBILITY_CHANGE, visible |-> "true"]
    /\ IsLive(clients, lastOp.port)
    /\ listeners[lastOp.port] = 1
    /\ CountCallbacks(trace) # {}

----------------------------------------------------------------------------
(* C40: a PortRegistry stays observable after shutdown(): on(event, cb),   *)
(* whenever it is called, subscribes cb to the event, and every register   *)
(* and every remove of a registered id calls each subscriber of its event  *)
(* once with the entry, as in a fresh registry.                            *)
SubscribersCalled(event, entry) ==
    \A callback \in Callbacks :
        Occurrences(trace', REv(event, callback, entry))
            = IF InSeq(callback, Subscribed(registry, event)) THEN 1 ELSE 0

Observed ==
    \A id \in RegIds :
        /\ (lastOp'.name = "register" /\ lastOp'.port = id) =>
              SubscribersCalled("add", getEntry(registry', id))
        /\ (lastOp'.name = "remove" /\ lastOp'.port = id
                /\ getEntry(registry, id) # NoEntry) =>
              SubscribersCalled("remove", getEntry(registry, id))

C40_ObservableAfterShutdown ==
    [][/\ lastOp'.name = "on" =>
             InSeq(lastOp'.port, Subscribed(registry', lastOp'.msg.type))
       /\ Observed]_vars

(* What holds: on() subscribes as long as shutdown() has not dropped the   *)
(* Sets of the events, after which it subscribes nothing and no callback   *)
(* is called any more; the subscribers a registry has are called once for  *)
(* every register and remove.                                              *)
C40_ObservableUntilShutdown ==
    [][/\ lastOp'.name = "on" =>
             IF lastOp'.msg.type \in DOMAIN registry.listeners
             THEN InSeq(lastOp'.port, Subscribed(registry', lastOp'.msg.type))
             ELSE registry' = registry
       /\ lastOp'.name = "shutdown" => DOMAIN registry'.listeners = {}
       /\ DOMAIN registry.listeners = {} =>
             /\ DOMAIN registry'.listeners = {}
             /\ EventsOf(trace', "add") = <<>>
             /\ EventsOf(trace', "remove") = <<>>
       /\ Observed]_vars

(* on('add', cb) was called after shutdown() and subscribed nothing *)
C40_SubscriptionIgnored ==
    /\ lastOp.name = "on"
    /\ lastOp.msg.type = "add"
    /\ DOMAIN registry.listeners = {}
    /\ Subscribed(registry, "add") = <<>>

====
